---- MODULE Spec2Model ----
(***************************************************************************)
(* Site allocation engine of the production planner (tree page script).    *)
(*                                                                         *)
(* State: the site registry SITES, the selection, the split points, the    *)
(* bundle list allocatableUnits received from the tree service, the        *)
(* Assignment table siteAssignments and the localStorage record.           *)
(* Operations: assignUnit, unassignUnit, resetAllocation, autoAllocateUnits.*)
(*                                                                         *)
(* Spec drives the allocation engine alone, over any bundle list.  Session *)
(* drives the whole page: the selection and split-point handlers, the tree *)
(* requests in flight with their responses in any order, the allocation    *)
(* controls as the page last rendered them, the clicks on the nodes of the *)
(* tree as it was last drawn, and page loads in two tasks: the evaluation  *)
(* of the script, then initFromUrl on DOMContentLoaded.  Splitting drives  *)
(* the add and remove buttons, the tree responses and the node clicks      *)
(* alone, through one change more.                                         *)
(***************************************************************************)
EXTENDS Integers, Sequences, FiniteSets, TLC

VARIABLES
    SITES,            \* site registry: sequence of [id, ports]
    selectedItems,    \* sequence of [id, lines]
    splitPoints,      \* set of item ids
    allocatableUnits, \* sequence of [id, port_per_line, total_lines]
    siteAssignments,  \* unit id -> (site id -> count), both with partial domains
    storage,          \* localStorage[STORAGE_KEY]: NoState or the saved record
    lastAlert,        \* alert() raised by the last operation: NoAlert or [lines, ports]
    allocLog,         \* per-line decisions of the last autoAllocateUnits run
    lastOp,           \* the last completed operation and what it met: for assignUnit its
                      \* pair, the pair's count before, and whether a listed bundle met a
                      \* full site; for unassignUnit the count it removed and whether it
                      \* undoes the assignUnit just before it; for resetAllocation whether
                      \* the table held anything
    discarded,        \* what the last autoAllocateUnits run threw away: "empty", "same" (the
                      \* table it then rebuilt) or "other"; "none" after any other operation
    nEdits,           \* number of assignUnit and unassignUnit calls made so far (bounded)
    pending,          \* tree requests in flight, oldest first: [items, split_points, stale]
    nChanges,         \* number of selection changes, split-point changes, show-tree
                      \* clicks, page loads, URL items taken over and clearState
                      \* calls made so far (bounded)
    siteView,         \* the site allocation section as last rendered: whether it is
                      \* displayed, and the bundle list and the table its controls
                      \* were built from (none while it is hidden)
    domReady,         \* FALSE between the evaluation of the script and DOMContentLoaded
    nEarly,           \* number of handlers run since the script was evaluated and
                      \* before DOMContentLoaded (bounded)
    network           \* the vis network of the tree as renderTree drew it last: its
                      \* nodes [itemId, isRaw]; none before the first tree and
                      \* after network.destroy()

vars == <<SITES, selectedItems, splitPoints, allocatableUnits, siteAssignments,
          storage, lastAlert, allocLog, lastOp, discarded, nEdits, pending, nChanges,
          siteView, domReady, nEarly, network>>

----------------------------------------------------------------------------
(* Bounds of the exploration *)

\* bundles in the bundle list
MaxUnits == 2
\* lines of all bundles of the list together
MaxTotalLines == 4
\* largest count passed to assignUnit (the page itself passes 1)
MaxAssignCount == 2
\* assignUnit and unassignUnit calls in one run of the page; in a planning
\* session an unassignUnit that undoes the assignUnit just before it is free
MaxEdits == 1
\* selection changes, split-point changes and show-tree clicks in one
\* planning session
MaxChanges == 2
\* handlers that run between the evaluation of the script and DOMContentLoaded
MaxEarly == 1
\* selection and split-point changes in one run of the split-point controls
MaxSplitChanges == 3

----------------------------------------------------------------------------
(* Site registry *)

\* const SITES (name and config are display strings and are left out)
RealSites ==
    << [id |-> "main", ports |-> 52],
       [id |-> "sub1", ports |-> 19],
       [id |-> "sub2", ports |-> 19],
       [id |-> "sub3", ports |-> 19] >>

\* the two-site registry of the best-fit scenario (capacities 52 and 19)
TwoSites ==
    << [id |-> "main", ports |-> 52],
       [id |-> "sub1", ports |-> 19] >>

\* the same two sites listed the other way round
TwoSitesReversed ==
    << [id |-> "sub1", ports |-> 19],
       [id |-> "main", ports |-> 52] >>

Registries == {RealSites, TwoSites, TwoSitesReversed}

SiteIds == {SITES[k].id : k \in 1..Len(SITES)}

\* site.ports of the registry entry with this id
SitePorts(siteId) == SITES[CHOOSE k \in 1..Len(SITES) : SITES[k].id = siteId].ports

\* per-line port costs the tree service may report
PortCosts == {13, 19, 60}

UnitIdAt(i) == CASE i = 1 -> "u1" [] i = 2 -> "u2" [] i = 3 -> "u3" [] OTHER -> "u4"

UnitIds == {UnitIdAt(i) : i \in 1..MaxUnits}

RECURSIVE SumLines(_)
SumLines(units) ==
    IF units = << >> THEN 0 ELSE Head(units).total_lines + SumLines(Tail(units))

\* bundle lists of the tree service: unique ids, positive costs, at least one line
BundleLists ==
    LET UnitsOfLen(n) ==
            { u \in [1..n -> [id : UnitIds, port_per_line : PortCosts,
                              total_lines : 1..MaxTotalLines]] :
                /\ \A i \in 1..n : u[i].id = UnitIdAt(i)
                /\ SumLines(u) <= MaxTotalLines }
    IN UNION { UnitsOfLen(n) : n \in 0..MaxUnits }

----------------------------------------------------------------------------
(* Numbers of the script *)

\* A Number that a line count can be: an integer-valued double, written with
\* its sign and its decimal digits (most significant first, << >> for 0),
\* Infinity with its sign, NaN, or null (what JSON reads back for a value it
\* cannot write, and a parameter the URL does not have). -0 is written as 0:
\* both are falsy and || 1 replaces them.
Finite(negative, digits) ==
    [kind |-> "finite", negative |-> negative /\ digits # << >>, digits |-> digits]

Infinity(negative) == [kind |-> "Infinity", negative |-> negative, digits |-> << >>]

NaN == [kind |-> "NaN", negative |-> FALSE, digits |-> << >>]

Null == [kind |-> "null", negative |-> FALSE, digits |-> << >>]

\* a double has 53 significant bits and is finite below 2^1024
MantissaBits == 53
MaxExponent == 1024

\* integers of at most this many digits are computed with directly
SmallDigits == 9
SmallLimit == 1000000000

\* every integer of at most this many digits is a double
ExactDigits == 15

\* a decimal text of more than this many digits is above every finite double
FiniteDigits == 309

\* the first position of seq that holds no 0, Len(seq) + 1 if there is none
FirstNonZero(seq) ==
    LET rest == {i \in 1..Len(seq) : seq[i] # 0}
    IN IF rest = {} THEN Len(seq) + 1
       ELSE CHOOSE i \in rest : \A j \in rest : i <= j

\* seq without its leading zeros
StripZeros(seq) == SubSeq(seq, FirstNonZero(seq), Len(seq))

\* the decimal digits of a natural number
RECURSIVE DigitsOfNat(_)
DigitsOfNat(n) == IF n = 0 THEN << >> ELSE Append(DigitsOfNat(n \div 10), n % 10)

\* the natural number of at most SmallDigits decimal digits
RECURSIVE NatOfDigits(_)
NatOfDigits(digits) ==
    IF digits = << >> THEN 0
    ELSE 10 * NatOfDigits(SubSeq(digits, 1, Len(digits) - 1)) + digits[Len(digits)]

\* the Number of an integer
Number(n) == IF n < 0 THEN Finite(TRUE, DigitsOfNat(0 - n)) ELSE Finite(FALSE, DigitsOfNat(n))

One == Number(1)

\* a finite Number small enough to compute with directly, and its integer
IsSmall(x) == x.kind = "finite" /\ Len(x.digits) <= SmallDigits

IntOf(x) == IF x.negative THEN 0 - NatOfDigits(x.digits) ELSE NatOfDigits(x.digits)

\* half of the natural number with these digits
Halve(digits) ==
    StripZeros([i \in 1..Len(digits) |->
                  ((IF i = 1 THEN 0 ELSE digits[i - 1] % 2) * 10 + digits[i]) \div 2])

\* twice the natural number with these digits, plus bit
Twice(digits, bit) ==
    LET low == [i \in 1..Len(digits) |->
                  (2 * digits[i]
                     + (IF i = Len(digits) THEN bit
                        ELSE IF digits[i + 1] >= 5 THEN 1 ELSE 0)) % 10]
    IN IF digits = << >> THEN (IF bit = 1 THEN <<1>> ELSE << >>)
       ELSE IF digits[1] >= 5 THEN <<1>> \o low ELSE << >> \o low

\* n times, or until no digit is left: the lowest bit of the digits goes in
\* front of the bits, and the digits are halved
RECURSIVE ShiftOut(_, _)
ShiftOut(st, n) ==
    IF n = 0 \/ st.digits = << >> THEN st
    ELSE IF n = 1
    THEN [digits |-> Halve(st.digits),
          bits |-> <<st.digits[Len(st.digits)] % 2>> \o st.bits]
    ELSE LET half == ShiftOut(st, n \div 2)
         IN IF half.digits = << >> THEN half ELSE ShiftOut(half, n - n \div 2)

\* the binary digits (most significant first) of the natural number with
\* these decimal digits; 4 bits are enough for a decimal digit
BitsOfDigits(digits) ==
    ShiftOut([digits |-> StripZeros(digits), bits |-> << >>], 4 * Len(digits)).bits

\* n times from position st.at on, or until no bit is left: the digits are
\* doubled and the next bit added
RECURSIVE ShiftIn(_, _, _)
ShiftIn(bits, st, n) ==
    IF n = 0 \/ st.at > Len(bits) THEN st
    ELSE IF n = 1
    THEN [digits |-> Twice(st.digits, bits[st.at]), at |-> st.at + 1]
    ELSE LET half == ShiftIn(bits, st, n \div 2)
         IN IF half.at > Len(bits) THEN half ELSE ShiftIn(bits, half, n - n \div 2)

\* the decimal digits of the natural number with these binary digits
DigitsOfBits(bits) == ShiftIn(bits, [digits |-> << >>, at |-> 1], Len(bits)).digits

\* the binary digits of the natural number with these bits, plus one
Successor(bits) ==
    LET zeros == {i \in 1..Len(bits) : bits[i] = 0}
    IN IF zeros = {} THEN <<1>> \o [i \in 1..Len(bits) |-> 0]
       ELSE LET last == CHOOSE i \in zeros : \A j \in zeros : j <= i
            IN << >> \o [i \in 1..Len(bits) |->
                           IF i < last THEN bits[i] ELSE IF i = last THEN 1 ELSE 0]

\* round to nearest, ties to even: the natural number with these bits (no
\* leading zero) keeps its first 53 bits, one added when the rest is above
\* half, or is half and the 53rd bit is 1
RoundBits(bits) ==
    IF Len(bits) <= MantissaBits THEN bits
    ELSE LET top == SubSeq(bits, 1, MantissaBits)
             half == bits[MantissaBits + 1] = 1
             sticky == \E i \in (MantissaBits + 2)..Len(bits) : bits[i] = 1
             up == half /\ (sticky \/ top[MantissaBits] = 1)
         IN (IF up THEN Successor(top) ELSE top)
               \o [i \in 1..(Len(bits) - MantissaBits) |-> 0]

\* the double nearest to the natural number with these binary digits
DoubleOfBits(bits) ==
    LET rounded == RoundBits(StripZeros(bits))
    IN IF Len(rounded) > MaxExponent THEN Infinity(FALSE)
       ELSE Finite(FALSE, DigitsOfBits(rounded))

\* the double nearest to the natural number with these decimal digits
DoubleOfDigits(digits) ==
    LET d == StripZeros(digits)
    IN IF Len(d) <= ExactDigits THEN Finite(FALSE, d)
       ELSE IF Len(d) > FiniteDigits THEN Infinity(FALSE)
       ELSE DoubleOfBits(BitsOfDigits(d))

\* -x
Negated(x) ==
    IF x.kind \in {"NaN", "null"} THEN x
    ELSE IF x.kind = "Infinity" THEN Infinity(~x.negative)
    ELSE Finite(~x.negative, x.digits)

\* a < b for the natural numbers with these decimal digits
LessDigits(a, b) ==
    \/ Len(a) < Len(b)
    \/ /\ Len(a) = Len(b)
       /\ \E i \in 1..Len(a) :
             /\ a[i] < b[i]
             /\ \A j \in 1..(i - 1) : a[j] = b[j]

\* a < b for two Numbers that are not NaN; null counts as 0
Less(a, b) ==
    LET x == IF a.kind = "null" THEN Number(0) ELSE a
        y == IF b.kind = "null" THEN Number(0) ELSE b
    IN IF x.negative # y.negative THEN x.negative
       ELSE IF x.kind = "Infinity" \/ y.kind = "Infinity"
       THEN IF x.negative THEN x.kind = "Infinity" /\ y.kind # "Infinity"
            ELSE y.kind = "Infinity" /\ x.kind # "Infinity"
       ELSE IF x.negative THEN LessDigits(y.digits, x.digits)
       ELSE LessDigits(x.digits, y.digits)

\* Math.max(a, b); null counts as 0
MathMax(a, b) ==
    IF a.kind = "NaN" \/ b.kind = "NaN" THEN NaN
    ELSE LET x == IF a.kind = "null" THEN Number(0) ELSE a
             y == IF b.kind = "null" THEN Number(0) ELSE b
         IN IF Less(x, y) THEN y ELSE x

\* a || b: b when a is 0, NaN or null
OrElse(a, b) ==
    IF a.kind \in {"NaN", "null"} \/ (a.kind = "finite" /\ a.digits = << >>) THEN b ELSE a

\* the natural number with these decimal digits (not 0) plus d, d 1 or -1
DigitsStep(digits, d) ==
    LET turn == {i \in 1..Len(digits) : digits[i] # (IF d = 1 THEN 9 ELSE 0)}
    IN IF turn = {} THEN <<1>> \o [i \in 1..Len(digits) |-> 0]
       ELSE LET last == CHOOSE i \in turn : \A j \in turn : j <= i
            IN StripZeros([i \in 1..Len(digits) |->
                             IF i < last THEN digits[i]
                             ELSE IF i = last THEN digits[i] + d
                             ELSE IF d = 1 THEN 0 ELSE 9])

\* the natural number with these decimal digits (more than SmallDigits of
\* them) plus the integer d, -SmallLimit < d < SmallLimit
DigitsPlus(digits, d) ==
    LET cut == Len(digits) - SmallDigits
        high == SubSeq(digits, 1, cut)
        low == NatOfDigits(SubSeq(digits, cut + 1, Len(digits))) + d
        carried == IF low < 0 THEN DigitsStep(high, -1)
                   ELSE IF low >= SmallLimit THEN DigitsStep(high, 1)
                   ELSE high
        rest == IF low < 0 THEN low + SmallLimit
                ELSE IF low >= SmallLimit THEN low - SmallLimit
                ELSE low
        tail == DigitsOfNat(rest)
    IN StripZeros(carried \o [i \in 1..(SmallDigits - Len(tail)) |-> 0] \o tail)

\* x + delta, delta an integer between -SmallLimit and SmallLimit: the double
\* nearest to the sum; null counts as 0
Plus(x, delta) ==
    IF x.kind = "null" THEN Number(delta)
    ELSE IF x.kind \in {"NaN", "Infinity"} THEN x
    ELSE IF IsSmall(x)
    THEN LET sum == IntOf(x) + delta
         IN IF sum < 0 THEN Negated(DoubleOfDigits(DigitsOfNat(0 - sum)))
            ELSE DoubleOfDigits(DigitsOfNat(sum))
    ELSE IF x.negative THEN Negated(DoubleOfDigits(DigitsPlus(x.digits, 0 - delta)))
    ELSE DoubleOfDigits(DigitsPlus(x.digits, delta))

\* JSON.parse(JSON.stringify(x)): a finite number is read back as it was
\* written, Infinity and NaN are written as null
JsonNumber(x) == IF x.kind = "finite" THEN x ELSE Null

\* the selection as JSON writes it
JsonItems(sel) == [k \in 1..Len(sel) |-> [sel[k] EXCEPT !.lines = JsonNumber(@)]]

----------------------------------------------------------------------------
(* Persistence *)

NoState == [saved |-> FALSE]

\* variant: the record is written without the selection
SavedRecord_noSelection(sel, sp, sa) ==
    [saved |-> TRUE, selectedItems |-> << >>, splitPoints |-> sp, siteAssignments |-> sa]

\* saveState(): the record written under STORAGE_KEY, as JSON.stringify writes
\* it and JSON.parse reads it back
SavedRecord(sel, sp, sa) ==
    [saved |-> TRUE, selectedItems |-> JsonItems(sel), splitPoints |-> sp,
     siteAssignments |-> sa]

\* variant: the table is not read back
loadState_noTable(st, sel, sp, sa) ==
    IF st.saved
    THEN [ok |-> TRUE, selectedItems |-> st.selectedItems, splitPoints |-> st.splitPoints,
          siteAssignments |-> << >>]
    ELSE [ok |-> FALSE, selectedItems |-> sel, splitPoints |-> sp, siteAssignments |-> sa]

\* loadState() over the selection, split points and table in memory: the
\* three fields of the record if there is one, else what memory holds; ok is
\* the value returned
loadState(st, sel, sp, sa) ==
    IF st.saved
    THEN [ok |-> TRUE, selectedItems |-> st.selectedItems, splitPoints |-> st.splitPoints,
          siteAssignments |-> st.siteAssignments]
    ELSE [ok |-> FALSE, selectedItems |-> sel, splitPoints |-> sp, siteAssignments |-> sa]

----------------------------------------------------------------------------
(* Read-side queries *)

EmptyMap == [x \in {} |-> 0]

\* allocatableUnits.find(u => u.id === unitId): index of the first match, 0 if none
RECURSIVE FindUnitFrom(_, _, _)
FindUnitFrom(units, unitId, i) ==
    IF i > Len(units) THEN 0
    ELSE IF units[i].id = unitId THEN i
    ELSE FindUnitFrom(units, unitId, i + 1)

FindUnit(units, unitId) == FindUnitFrom(units, unitId, 1)

\* assignments[siteId] || 0
CountAt(assignments, siteId) ==
    IF siteId \in DOMAIN assignments THEN assignments[siteId] ELSE 0

\* siteAssignments[unitId] || {}
AssignmentsOf(sa, unitId) ==
    IF unitId \in DOMAIN sa THEN sa[unitId] ELSE EmptyMap

RECURSIVE SumCounts(_, _)
SumCounts(assignments, keys) ==
    IF keys = {} THEN 0
    ELSE LET k == CHOOSE x \in keys : TRUE
         IN assignments[k] + SumCounts(assignments, keys \ {k})

getAssignedCount(sa, unitId) ==
    LET assignments == AssignmentsOf(sa, unitId)
    IN SumCounts(assignments, DOMAIN assignments)

getUnassignedCount(units, sa, unitId) ==
    LET i == FindUnit(units, unitId)
    IN IF i = 0 THEN 0 ELSE units[i].total_lines - getAssignedCount(sa, unitId)

getSiteUsedPorts_clamped(units, sa, siteId) ==
    LET RECURSIVE Over(_)
        Over(keys) ==
            IF keys = {} THEN 0
            ELSE LET unitId == CHOOSE x \in keys : TRUE
                     count == IF siteId \in DOMAIN sa[unitId] THEN sa[unitId][siteId] ELSE 0
                     hits == {i \in 1..Len(units) : units[i].id = unitId}
                     add == IF count > 0 /\ hits # {}
                            THEN units[CHOOSE i \in hits : \A j \in hits : i <= j].port_per_line
                                 * count
                            ELSE 0
                 IN add + Over(keys \ {unitId})
        used == Over(DOMAIN sa)
        ports == SitePorts(siteId)
    IN IF used > ports THEN ports ELSE used

RECURSIVE UsedPortsOver(_, _, _, _)
UsedPortsOver(units, sa, siteId, keys) ==
    IF keys = {} THEN 0
    ELSE LET unitId == CHOOSE x \in keys : TRUE
             count == CountAt(sa[unitId], siteId)
             i == FindUnit(units, unitId)
             add == IF count > 0 /\ i # 0 THEN units[i].port_per_line * count ELSE 0
         IN add + UsedPortsOver(units, sa, siteId, keys \ {unitId})

\* variant: counts the lines placed on the site, not their ports
getSiteUsedPorts_lines(units, sa, siteId) ==
    LET RECURSIVE Over(_)
        Over(keys) ==
            IF keys = {} THEN 0
            ELSE LET unitId == CHOOSE x \in keys : TRUE
                     count == IF siteId \in DOMAIN sa[unitId] THEN sa[unitId][siteId] ELSE 0
                     hits == {i \in 1..Len(units) : units[i].id = unitId}
                 IN (IF count > 0 /\ hits # {} THEN count ELSE 0) + Over(keys \ {unitId})
    IN Over(DOMAIN sa)

getSiteUsedPorts(units, sa, siteId) == UsedPortsOver(units, sa, siteId, DOMAIN sa)

\* getSiteUnits(): the units with a count on the site, in list order
RECURSIVE SiteUnitsFrom(_, _, _, _)
SiteUnitsFrom(units, sa, siteId, i) ==
    IF i > Len(units) THEN << >>
    ELSE LET count == CountAt(AssignmentsOf(sa, units[i].id), siteId)
             rest == SiteUnitsFrom(units, sa, siteId, i + 1)
         IN IF count > 0
            THEN << [id |-> units[i].id, port_per_line |-> units[i].port_per_line,
                     total_lines |-> units[i].total_lines, assigned_count |-> count,
                     assigned_ports |-> units[i].port_per_line * count] >> \o rest
            ELSE rest

\* variant: the port total of an entry is the cost of one line
getSiteUnits_oneLine(units, sa, siteId) ==
    LET RECURSIVE From(_)
        From(i) ==
            IF i > Len(units) THEN << >>
            ELSE LET count == IF units[i].id \in DOMAIN sa /\ siteId \in DOMAIN sa[units[i].id]
                              THEN sa[units[i].id][siteId] ELSE 0
                 IN IF count > 0
                    THEN << [id |-> units[i].id, port_per_line |-> units[i].port_per_line,
                             total_lines |-> units[i].total_lines, assigned_count |-> count,
                             assigned_ports |-> units[i].port_per_line] >> \o From(i + 1)
                    ELSE From(i + 1)
    IN From(1)

getSiteUnits(units, sa, siteId) == SiteUnitsFrom(units, sa, siteId, 1)

\* getUnassignedUnits(): units with remaining > 0, in list order
RECURSIVE UnassignedFrom(_, _, _)
UnassignedFrom(units, sa, i) ==
    IF i > Len(units) THEN << >>
    ELSE LET remaining == getUnassignedCount(units, sa, units[i].id)
             rest == UnassignedFrom(units, sa, i + 1)
         IN IF remaining > 0
            THEN << [id |-> units[i].id, port_per_line |-> units[i].port_per_line,
                     total_lines |-> units[i].total_lines, remaining |-> remaining] >> \o rest
            ELSE rest

\* variant: lists every unit whose remaining count is not zero
getUnassignedUnits_nonzero(units, sa) ==
    LET RECURSIVE From(_)
        From(i) ==
            IF i > Len(units) THEN << >>
            ELSE LET remaining == units[i].total_lines - getAssignedCount(sa, units[i].id)
                 IN IF remaining # 0
                    THEN << [id |-> units[i].id, port_per_line |-> units[i].port_per_line,
                             total_lines |-> units[i].total_lines,
                             remaining |-> remaining] >> \o From(i + 1)
                    ELSE From(i + 1)
    IN From(1)

getUnassignedUnits(units, sa) == UnassignedFrom(units, sa, 1)

----------------------------------------------------------------------------
(* Manual operations on the Assignment table *)

AssignTable_overwrite(sa, unitId, siteId, count) ==
    LET sa1 == IF unitId \in DOMAIN sa THEN sa ELSE (unitId :> EmptyMap) @@ sa
    IN [sa1 EXCEPT ![unitId] = (siteId :> count) @@ @]

\* the table written by assignUnit(unitId, siteId, count)
AssignTable(sa, unitId, siteId, count) ==
    LET sa1 == IF unitId \in DOMAIN sa THEN sa ELSE (unitId :> EmptyMap) @@ sa
        current == CountAt(sa1[unitId], siteId)
    IN [sa1 EXCEPT ![unitId] = (siteId :> (current + count)) @@ @]

UnassignTable_keepEmpty(sa, unitId, siteId) ==
    IF unitId \in DOMAIN sa
    THEN [sa EXCEPT ![unitId] = [s \in (DOMAIN sa[unitId]) \ {siteId} |-> sa[unitId][s]]]
    ELSE sa

UnassignTable_decrement(sa, unitId, siteId) ==
    IF unitId \in DOMAIN sa /\ siteId \in DOMAIN sa[unitId] /\ sa[unitId][siteId] > 1
    THEN [sa EXCEPT ![unitId][siteId] = @ - 1]
    ELSE IF unitId \in DOMAIN sa
    THEN LET rest == [s \in (DOMAIN sa[unitId]) \ {siteId} |-> sa[unitId][s]]
         IN IF DOMAIN rest = {}
            THEN [u \in (DOMAIN sa) \ {unitId} |-> sa[u]]
            ELSE [sa EXCEPT ![unitId] = rest]
    ELSE sa

\* the table left by unassignUnit(unitId, siteId)
UnassignTable(sa, unitId, siteId) ==
    IF unitId \in DOMAIN sa
    THEN LET rest == [s \in (DOMAIN sa[unitId]) \ {siteId} |-> sa[unitId][s]]
         IN IF DOMAIN rest = {}
            THEN [u \in (DOMAIN sa) \ {unitId} |-> sa[u]]
            ELSE [sa EXCEPT ![unitId] = rest]
    ELSE sa

ClearedTable_keep(sa) == sa

\* siteAssignments = {} in resetAllocation
ClearedTable(sa) == EmptyMap

\* the section with nothing to click: before its first render, and while it is
\* not displayed
NoView == [visible |-> FALSE, units |-> << >>, table |-> << >>]

\* hideSiteAllocation(): display none, so that no control of the section can be
\* clicked
hideSiteAllocation(view) == NoView

\* renderSiteAllocation(): hidden when there is no unit, else displayed with
\* cards and selects built from the bundle list and the table as they are now
renderSiteAllocation(view, units, sa) ==
    IF Len(units) = 0 THEN hideSiteAllocation(view)
    ELSE [visible |-> TRUE, units |-> units, table |-> sa]

NoAlert == [shown |-> FALSE]

\* let network = null: no tree is drawn, so no node can be clicked
NoNetwork == [drawn |-> FALSE, nodes |-> {}]

\* the tree the tree service answers with, as the nodes [item_id, is_raw] of
\* data.tree: a and b, the raw material r, and an item the catalogue of the
\* page does not have
Trees ==
    { { [item_id |-> "a", is_raw |-> FALSE], [item_id |-> "b", is_raw |-> FALSE],
        [item_id |-> "r", is_raw |-> TRUE], [item_id |-> "x", is_raw |-> FALSE] } }

\* renderTree(treeData): the network before is destroyed and a new one drawn
\* with one node for each node of the data
renderTree(treeData) ==
    [drawn |-> TRUE,
     nodes |-> {[itemId |-> node.item_id, isRaw |-> node.is_raw] : node \in treeData}]

----------------------------------------------------------------------------
(* autoAllocateUnits: Best Fit Decreasing *)

AutoStartTable_keep(sa) == sa

\* siteAssignments = {} at the start of autoAllocateUnits
AutoStartTable(sa) == EmptyMap

RECURSIVE LinesOfUnit_inclusive(_, _)
LinesOfUnit_inclusive(unit, n) ==
    IF n < 0 THEN << >>
    ELSE << [unitId |-> unit.id, portPerLine |-> unit.port_per_line] >>
         \o LinesOfUnit_inclusive(unit, n - 1)

\* the inner for loop: total_lines entries {unitId, portPerLine} of one unit
RECURSIVE LinesOfUnit(_, _)
LinesOfUnit(unit, n) ==
    IF n <= 0 THEN << >>
    ELSE << [unitId |-> unit.id, portPerLine |-> unit.port_per_line] >>
         \o LinesOfUnit(unit, n - 1)

\* variant: one line per unit, whatever its total_lines
ExpandLines_once(units) ==
    [i \in 1..Len(units) |-> [unitId |-> units[i].id, portPerLine |-> units[i].port_per_line]]

\* allocatableUnits.forEach(unit => ... linesToAllocate.push(...))
RECURSIVE ExpandLines(_)
ExpandLines(units) ==
    IF units = << >> THEN << >>
    ELSE LinesOfUnit(Head(units), Head(units).total_lines) \o ExpandLines(Tail(units))

\* comparator (a, b) => b.portPerLine - a.portPerLine: negative when a sorts before b
Compare(a, b) == b.portPerLine - a.portPerLine

\* variant: a line goes in front of the lines of the same cost
RECURSIVE InsertLine_beforeEqual(_, _)
InsertLine_beforeEqual(sorted, line) ==
    IF sorted = << >> THEN << line >>
    ELSE IF Head(sorted).portPerLine > line.portPerLine
         THEN << Head(sorted) >> \o InsertLine_beforeEqual(Tail(sorted), line)
         ELSE << line >> \o sorted

\* insertion of one line behind every line that does not sort after it (stable)
RECURSIVE InsertLine(_, _)
InsertLine(sorted, line) ==
    IF sorted = << >> THEN << line >>
    ELSE IF Compare(Head(sorted), line) <= 0
         THEN << Head(sorted) >> \o InsertLine(Tail(sorted), line)
         ELSE << line >> \o sorted

\* Array.prototype.sort with the comparator above (a stable sort)
RECURSIVE SortFrom(_, _, _)
SortFrom(lines, i, sorted) ==
    IF i > Len(lines) THEN sorted
    ELSE SortFrom(lines, i + 1, InsertLine(sorted, lines[i]))

SortLines(lines) == SortFrom(lines, 1, << >>)

\* SITES.forEach(site => { remainingCapacity[site.id] = site.ports; })
RECURSIVE CapacityFrom(_, _, _)
CapacityFrom(sites, k, remainingCapacity) ==
    IF k > Len(sites) THEN remainingCapacity
    ELSE CapacityFrom(sites, k + 1, (sites[k].id :> sites[k].ports) @@ remainingCapacity)

InitialCapacity(sites) == CapacityFrom(sites, 1, EmptyMap)

Fits_positive(remaining, portPerLine) == remaining > 0

Fits_strict(remaining, portPerLine) == remaining > portPerLine

Fits_always(remaining, portPerLine) == TRUE

\* remaining >= line.portPerLine
Fits(remaining, portPerLine) == remaining >= portPerLine

\* bestSite = null, bestFit = Infinity
NoBest == << >>
NoSite == "null"

BetterFit_orEqual(fit, best) == best = NoBest \/ fit <= best[2]

BetterFit_first(fit, best) == best = NoBest

\* fit < bestFit
BetterFit(fit, best) == best = NoBest \/ fit < best[2]

\* SITES.forEach(site => ...) of one line: the pair <<bestSite, bestFit>> or NoBest
RECURSIVE ScanSites(_, _, _, _, _)
ScanSites(sites, remainingCapacity, portPerLine, k, best) ==
    IF k > Len(sites) THEN best
    ELSE LET remaining == remainingCapacity[sites[k].id]
             fit == remaining - portPerLine
             best1 == IF Fits(remaining, portPerLine) /\ BetterFit(fit, best)
                      THEN << sites[k].id, fit >>
                      ELSE best
         IN ScanSites(sites, remainingCapacity, portPerLine, k + 1, best1)

BestSite(sites, remainingCapacity, portPerLine) ==
    LET best == ScanSites(sites, remainingCapacity, portPerLine, 1, NoBest)
    IN IF best = NoBest THEN NoSite ELSE best[1]

\* variant: a placed line takes its cost twice from the site
TakeCapacity_twice(remainingCapacity, bestSite, portPerLine) ==
    (bestSite :> (remainingCapacity[bestSite] - 2 * portPerLine)) @@ remainingCapacity

\* remainingCapacity[bestSite] -= line.portPerLine
TakeCapacity(remainingCapacity, bestSite, portPerLine) ==
    (bestSite :> (remainingCapacity[bestSite] - portPerLine)) @@ remainingCapacity

\* linesToAllocate.forEach(line => ...): the table, the capacities and the decisions
RECURSIVE AllocLoop(_, _, _, _, _, _)
AllocLoop(sites, lines, i, sa, remainingCapacity, log) ==
    IF i > Len(lines) THEN [table |-> sa, remaining |-> remainingCapacity, log |-> log]
    ELSE LET line == lines[i]
             bestSite == BestSite(sites, remainingCapacity, line.portPerLine)
             entry == [unitId |-> line.unitId, portPerLine |-> line.portPerLine,
                       remaining |-> remainingCapacity, bestSite |-> bestSite]
         IN IF bestSite # NoSite
            THEN AllocLoop(sites, lines, i + 1,
                           AssignTable(sa, line.unitId, bestSite, 1),
                           TakeCapacity(remainingCapacity, bestSite, line.portPerLine),
                           Append(log, entry))
            ELSE AllocLoop(sites, lines, i + 1, sa, remainingCapacity, Append(log, entry))

AutoAllocate(sites, units, sa) ==
    AllocLoop(sites, SortLines(ExpandLines(units)), 1, AutoStartTable(sa),
              InitialCapacity(sites), << >>)

RECURSIVE SumRemaining(_)
SumRemaining(unassigned) ==
    IF unassigned = << >> THEN 0
    ELSE Head(unassigned).remaining + SumRemaining(Tail(unassigned))

RECURSIVE SumRemainingPorts_perUnit(_)
SumRemainingPorts_perUnit(unassigned) ==
    IF unassigned = << >> THEN 0
    ELSE Head(unassigned).port_per_line + SumRemainingPorts_perUnit(Tail(unassigned))

RECURSIVE SumRemainingPorts(_)
SumRemainingPorts(unassigned) ==
    IF unassigned = << >> THEN 0
    ELSE Head(unassigned).port_per_line * Head(unassigned).remaining
         + SumRemainingPorts(Tail(unassigned))

\* the alert of autoAllocateUnits, raised only when some unit has lines left
UnassignedAlert(units, sa) ==
    LET unassigned == getUnassignedUnits(units, sa)
    IN IF Len(unassigned) > 0
       THEN [shown |-> TRUE, lines |-> SumRemaining(unassigned),
             ports |-> SumRemainingPorts(unassigned)]
       ELSE NoAlert

\* the page once a tree response has drawn its tree and stored its bundle
\* list, before any allocation was made; the two-site registries are met with
\* the lists of at most two bundles, the shipped registry with every list
Init ==
    /\ SITES \in Registries
    /\ selectedItems = << [id |-> "item1", lines |-> One] >>
    /\ splitPoints = {}
    /\ allocatableUnits \in BundleLists
    /\ SITES # RealSites => Len(allocatableUnits) <= 2
    /\ siteAssignments = EmptyMap
    /\ storage = SavedRecord(selectedItems, splitPoints, siteAssignments)
    /\ lastAlert = NoAlert
    /\ allocLog = << >>
    /\ lastOp = [name |-> "init"]
    /\ discarded = "none"
    /\ nEdits = 0
    /\ pending = << >>
    /\ nChanges = 0
    /\ siteView = renderSiteAllocation(NoView, allocatableUnits, siteAssignments)
    /\ domReady = TRUE
    /\ nEarly = 0
    /\ network \in {renderTree(tree) : tree \in Trees}

assignUnit(unitId, siteId, count) ==
    /\ siteAssignments' = AssignTable(siteAssignments, unitId, siteId, count)
    /\ storage' = SavedRecord(selectedItems, splitPoints, siteAssignments')
    /\ lastAlert' = NoAlert
    /\ allocLog' = << >>
    /\ lastOp' = [name |-> "assignUnit",
                 unitId |-> unitId, siteId |-> siteId,
                 pairBefore |-> CountAt(AssignmentsOf(siteAssignments, unitId), siteId),
                 pairHadLines |-> CountAt(AssignmentsOf(siteAssignments, unitId), siteId) > 0,
                 siteWasFull |-> /\ FindUnit(allocatableUnits, unitId) # 0
                                 /\ getSiteUsedPorts(allocatableUnits, siteAssignments, siteId)
                                       = SitePorts(siteId)]
    /\ discarded' = "none"
    /\ nEdits' = nEdits + 1
    /\ siteView' = renderSiteAllocation(siteView, allocatableUnits, siteAssignments')
    /\ UNCHANGED <<SITES, domReady, network, selectedItems, splitPoints, allocatableUnits, pending, nChanges>>

\* the call follows an assignUnit of the same pair with nothing in between
UndoesAssign(unitId, siteId) ==
    /\ lastOp.name = "assignUnit"
    /\ lastOp.unitId = unitId
    /\ lastOp.siteId = siteId

unassignUnit(unitId, siteId) ==
    /\ siteAssignments' = UnassignTable(siteAssignments, unitId, siteId)
    /\ storage' = SavedRecord(selectedItems, splitPoints, siteAssignments')
    /\ lastAlert' = NoAlert
    /\ allocLog' = << >>
    /\ lastOp' = IF UndoesAssign(unitId, siteId)
                 THEN [name |-> "unassignUnit", undoes |-> TRUE,
                       removed |-> CountAt(AssignmentsOf(siteAssignments, unitId), siteId),
                       unitId |-> unitId, siteId |-> siteId,
                       pairBefore |-> lastOp.pairBefore]
                 ELSE [name |-> "unassignUnit", undoes |-> FALSE,
                       removed |-> CountAt(AssignmentsOf(siteAssignments, unitId), siteId)]
    /\ discarded' = "none"
    /\ nEdits' = nEdits + 1
    /\ siteView' = renderSiteAllocation(siteView, allocatableUnits, siteAssignments')
    /\ UNCHANGED <<SITES, domReady, network, selectedItems, splitPoints, allocatableUnits, pending, nChanges>>

resetAllocation ==
    /\ siteAssignments' = ClearedTable(siteAssignments)
    /\ storage' = SavedRecord(selectedItems, splitPoints, siteAssignments')
    /\ lastAlert' = NoAlert
    /\ allocLog' = << >>
    /\ lastOp' = [name |-> "resetAllocation", hadLines |-> siteAssignments # EmptyMap]
    /\ discarded' = "none"
    /\ siteView' = renderSiteAllocation(siteView, allocatableUnits, siteAssignments')
    /\ UNCHANGED <<SITES, domReady, network, selectedItems, splitPoints, allocatableUnits, nEdits,
                   pending, nChanges>>

autoAllocateUnits ==
    LET result == AutoAllocate(SITES, allocatableUnits, siteAssignments)
    IN /\ siteAssignments' = result.table
       /\ storage' = SavedRecord(selectedItems, splitPoints, siteAssignments')
       /\ lastAlert' = UnassignedAlert(allocatableUnits, siteAssignments')
       /\ allocLog' = result.log
       /\ lastOp' = [name |-> "autoAllocateUnits"]
       /\ discarded' = IF siteAssignments = EmptyMap THEN "empty"
                       ELSE IF siteAssignments = result.table THEN "same" ELSE "other"
       /\ siteView' = renderSiteAllocation(siteView, allocatableUnits, siteAssignments')
       /\ UNCHANGED <<SITES, domReady, network, selectedItems, splitPoints, allocatableUnits, nEdits,
                      pending, nChanges>>

\* the engine driven through its four operations, with any bundle id, any site
\* and counts above 1
Next ==
    /\ \/ /\ nEdits < MaxEdits
          /\ \E unitId \in UnitIds, siteId \in SiteIds, count \in {1, MaxAssignCount} :
                assignUnit(unitId, siteId, count)
       \/ /\ nEdits < MaxEdits
          /\ \E unitId \in UnitIds, siteId \in SiteIds : unassignUnit(unitId, siteId)
       \/ resetAllocation
       \/ autoAllocateUnits
    /\ UNCHANGED nEarly

Spec == Init /\ [][Next]_vars

----------------------------------------------------------------------------
(* Planning session: selection, split points and tree requests *)

\* the item catalogue the page loads; "x" is an id the catalogue does not have
Catalogue ==
    << [id |-> "a", is_raw |-> FALSE],
       [id |-> "b", is_raw |-> FALSE],
       [id |-> "r", is_raw |-> TRUE] >>

CatalogueIds == {Catalogue[k].id : k \in 1..Len(Catalogue)}
ItemIds == CatalogueIds \cup {"x"}

\* items.find(i => i.id === itemId): index of the first match, 0 if none
RECURSIVE FindItemFrom(_, _)
FindItemFrom(itemId, k) ==
    IF k > Len(Catalogue) THEN 0
    ELSE IF Catalogue[k].id = itemId THEN k
    ELSE FindItemFrom(itemId, k + 1)

FindItem(itemId) == FindItemFrom(itemId, 1)

\* the autocomplete list offers the items that are not raw
AddableIds == {Catalogue[k].id : k \in {j \in 1..Len(Catalogue) : ~Catalogue[j].is_raw}}

\* items named by the quick buttons
QuickIds == {"a", "x"}

\* variant: no item is ever found in the selection
IsSelected_never(sel, itemId) == FALSE

\* selectedItems.some(i => i.id === itemId)
IsSelected(sel, itemId) == \E k \in 1..Len(sel) : sel[k].id = itemId

\* selectedItems.splice(index, 1); positions count from 1 here, from 0 in the script
Splice(seq, index) == SubSeq(seq, 1, index - 1) \o SubSeq(seq, index + 1, Len(seq))

----------------------------------------------------------------------------
(* Line counts typed by the user *)

\* a text of n digits 9
Nines(n) == [i \in 1..n |-> "9"]

\* texts typed into the line-count field, as character sequences; a character
\* that cannot be written in a string of this module is named by its code
\* point: "U+3000" is the ideographic space
LineInputs ==
    { <<"2">>, <<"0">>, <<"-", "3">>, <<" ", "2", ".", "7">>, <<"a">>,
      <<"\f", "U+3000", "0", "x", "2">>,
      <<"9", "0", "0", "7", "1", "9", "9", "2", "5", "4", "7", "4", "0", "9", "9", "3">>,
      Nines(FiniteDigits + 1) }

\* texts of the lines parameter of the page URL; << >> is a URL without it
UrlLines ==
    { << >>, <<"2">>, <<"0">>, <<"-", "3">>, <<"a">>,
      <<"U+00A0", "\t", "0", "X", "2">>,
      <<"9", "0", "0", "7", "1", "9", "9", "2", "5", "4", "7", "4", "0", "9", "9", "3">>,
      Nines(FiniteDigits + 1) }

\* StrWhiteSpaceChar, the white space and the line terminators that parseInt
\* skips in front of the number: TAB, VT, FF, SP, NBSP, ZWNBSP, the other space
\* separators, LF, CR, LS and PS
WhiteSpace ==
    { "\t", "\f", " ", "\n", "\r", "", " ", "﻿", " ",
      "U+000B", "U+00A0", "U+FEFF", "U+1680", "U+2000", "U+2001", "U+2002",
      "U+2003", "U+2004", "U+2005", "U+2006", "U+2007", "U+2008", "U+2009",
      "U+200A", "U+202F", "U+205F", "U+3000", "U+2028", "U+2029" }

\* the value of a character as a digit, up to radix 16; -1 for any other
DigitValue(ch) ==
    CASE ch = "0" -> 0 [] ch = "1" -> 1 [] ch = "2" -> 2 [] ch = "3" -> 3 [] ch = "4" -> 4
      [] ch = "5" -> 5 [] ch = "6" -> 6 [] ch = "7" -> 7 [] ch = "8" -> 8 [] ch = "9" -> 9
      [] ch \in {"a", "A"} -> 10 [] ch \in {"b", "B"} -> 11 [] ch \in {"c", "C"} -> 12
      [] ch \in {"d", "D"} -> 13 [] ch \in {"e", "E"} -> 14 [] ch \in {"f", "F"} -> 15
      [] OTHER -> -1

\* the first position of text from i on that holds no white space
RECURSIVE SkipWhiteSpace(_, _)
SkipWhiteSpace(text, i) ==
    IF i <= Len(text) /\ text[i] \in WhiteSpace THEN SkipWhiteSpace(text, i + 1) ELSE i

\* the values of the digits of text in this radix from position i on, up to
\* the first other character
DigitsFrom(text, i, radix) ==
    LET stops == {j \in i..Len(text) :
                     DigitValue(text[j]) < 0 \/ DigitValue(text[j]) >= radix}
        end == IF stops = {} THEN Len(text) + 1
               ELSE CHOOSE j \in stops : \A k \in stops : j <= k
    IN [j \in 1..(end - i) |-> DigitValue(text[i + j - 1])]

\* the four binary digits of each hexadecimal digit
HexBits(digits) ==
    [k \in 1..(4 * Len(digits)) |->
        (digits[(k + 3) \div 4] \div (CASE k % 4 = 1 -> 8 [] k % 4 = 2 -> 4
                                        [] k % 4 = 3 -> 2 [] OTHER -> 1)) % 2]

\* parseInt of a text: leading white space is skipped, then an optional sign,
\* then 0x or 0X and hexadecimal digits, or decimal digits; NaN without a
\* digit, else the double nearest to the integer read
StringToInt(text) ==
    LET start == SkipWhiteSpace(text, 1)
        negative == start <= Len(text) /\ text[start] = "-"
        signed == start <= Len(text) /\ text[start] \in {"-", "+"}
        first == IF signed THEN start + 1 ELSE start
        hex == /\ first + 1 <= Len(text)
               /\ text[first] = "0"
               /\ text[first + 1] \in {"x", "X"}
        digits == IF hex THEN DigitsFrom(text, first + 2, 16)
                  ELSE DigitsFrom(text, first, 10)
        number == IF hex THEN DoubleOfBits(<< >> \o HexBits(digits))
                  ELSE DoubleOfDigits(<< >> \o digits)
    IN IF Len(digits) = 0 THEN NaN
       ELSE IF negative THEN Negated(number) ELSE number

\* parseInt of the texts above, computed once
ParsedTexts == [text \in LineInputs \cup UrlLines |-> StringToInt(text)]

\* parseInt(value)
ParseInt(text) ==
    IF text \in DOMAIN ParsedTexts THEN ParsedTexts[text] ELSE StringToInt(text)

\* Math.max(1, parseInt(value) || 1)
LinesOfInput(text) == MathMax(One, OrElse(ParseInt(text), One))

\* Math.max(1, lines + delta)
AdjustedLines(lines, delta) == MathMax(One, Plus(lines, delta))

----------------------------------------------------------------------------

\* the synchronous part of loadMultiProductionTree(): nothing with an empty
\* selection, else one more request in flight, which makes the others stale;
\* the body is the selection as JSON.stringify writes it
LoadTree(sel, sp, inFlight) ==
    IF Len(sel) = 0 THEN inFlight
    ELSE Append([k \in 1..Len(inFlight) |-> [inFlight[k] EXCEPT !.stale = TRUE]],
                [items |-> JsonItems(sel), split_points |-> sp, stale |-> FALSE])

Settled_retry(inFlight, i) == Append(Splice(inFlight, i), inFlight[i])

\* the requests in flight once request i got its answer
Settled(inFlight, i) == Splice(inFlight, i)

CanToggle_targets(sel, itemId) ==
    /\ FindItem(itemId) # 0
    /\ ~Catalogue[FindItem(itemId)].is_raw

\* toggleSplitPoint goes on for a catalogue item that is neither raw nor selected
CanToggle(sel, itemId) ==
    /\ FindItem(itemId) # 0
    /\ ~Catalogue[FindItem(itemId)].is_raw
    /\ ~IsSelected(sel, itemId)

\* splitPoints after the has/delete/add of toggleSplitPoint
FlipSplitPoint(sp, itemId) ==
    IF itemId \in sp THEN sp \ {itemId} ELSE sp \cup {itemId}

\* bundle lists the tree service answers with; FewerLines is BigUnit derived
\* again for fewer lines of the selected item
BigUnit == [id |-> "u1", port_per_line |-> 26, total_lines |-> 3]
FewerLines == [id |-> "u1", port_per_line |-> 26, total_lines |-> 2]
SmallUnit == [id |-> "u2", port_per_line |-> 13, total_lines |-> 1]
DerivedLists == { << >>, << BigUnit >>, << FewerLines >>, << BigUnit, SmallUnit >> }

\* data of an OK response: the tree, the bundles (their number) and the
\* allocatable units
TreeResponses ==
    {[tree |-> tree, bundles |-> Len(units), allocatable_units |-> units] :
        tree \in Trees, units \in DerivedLists}

\* the items the click handler of the network passes to toggleSplitPoint: those
\* of the drawn nodes that are not flagged raw
ClickableIds(net) == {node.itemId : node \in {n \in net.nodes : ~n.isRaw}}

ListedIds(units) == {units[i].id : i \in 1..Len(units)}

PruneTable_clear(sa, units) == EmptyMap

\* the clean-up of renderBundles: keys that are no unit of the list are deleted
PruneTable(sa, units) ==
    [unitId \in (DOMAIN sa) \cap ListedIds(units) |-> sa[unitId]]

AlreadyAddedAlert == [shown |-> TRUE, text |-> "already added"]
LoadFailedAlert == [shown |-> TRUE, text |-> "tree load failed"]

\* a first visit without a URL item, once initFromUrl has run: nothing
\* selected, nothing stored, nothing rendered
SessionInit ==
    /\ SITES = RealSites
    /\ selectedItems = << >>
    /\ splitPoints = {}
    /\ allocatableUnits = << >>
    /\ siteAssignments = EmptyMap
    /\ storage = NoState
    /\ lastAlert = NoAlert
    /\ allocLog = << >>
    /\ lastOp = [name |-> "init"]
    /\ discarded = "none"
    /\ nEdits = 0
    /\ pending = << >>
    /\ nChanges = 0
    /\ siteView = NoView
    /\ domReady = TRUE
    /\ nEarly = 0
    /\ network = NoNetwork

addItem(itemId) ==
    /\ IF IsSelected(selectedItems, itemId)
       THEN /\ lastAlert' = AlreadyAddedAlert
            /\ lastOp' = [name |-> "addItem", added |-> FALSE]
            /\ UNCHANGED <<selectedItems, storage, pending, nChanges>>
       ELSE /\ selectedItems' = Append(selectedItems, [id |-> itemId, lines |-> One])
            /\ storage' = SavedRecord(selectedItems', splitPoints, siteAssignments)
            /\ pending' = LoadTree(selectedItems', splitPoints, pending)
            /\ lastAlert' = NoAlert
            /\ lastOp' = [name |-> "addItem", added |-> TRUE]
            /\ nChanges' = nChanges + 1
    /\ allocLog' = << >>
    /\ discarded' = "none"
    /\ UNCHANGED <<SITES, domReady, network, siteView, splitPoints, allocatableUnits, siteAssignments, nEdits>>

removeItem(index) ==
    /\ selectedItems' = Splice(selectedItems, index)
    /\ storage' = SavedRecord(selectedItems', splitPoints, siteAssignments)
    /\ pending' = LoadTree(selectedItems', splitPoints, pending)
    /\ lastAlert' = NoAlert
    /\ allocLog' = << >>
    /\ lastOp' = [name |-> "removeItem"]
    /\ discarded' = "none"
    /\ nChanges' = nChanges + 1
    /\ network' = IF Len(selectedItems') > 0 THEN network ELSE NoNetwork
    /\ siteView' = IF Len(selectedItems') > 0 THEN siteView
                    ELSE hideSiteAllocation(siteView)
    /\ UNCHANGED <<SITES, domReady, splitPoints, allocatableUnits, siteAssignments, nEdits>>

adjustItemLines(index, delta) ==
    /\ selectedItems' = [selectedItems EXCEPT
                            ![index].lines = AdjustedLines(selectedItems[index].lines, delta)]
    /\ storage' = SavedRecord(selectedItems', splitPoints, siteAssignments)
    /\ pending' = LoadTree(selectedItems', splitPoints, pending)
    /\ lastAlert' = NoAlert
    /\ allocLog' = << >>
    /\ lastOp' = [name |-> "adjustItemLines"]
    /\ discarded' = "none"
    /\ nChanges' = nChanges + 1
    /\ UNCHANGED <<SITES, domReady, network, siteView, splitPoints, allocatableUnits, siteAssignments, nEdits>>

setItemLines(index, value) ==
    /\ selectedItems' = [selectedItems EXCEPT ![index].lines = LinesOfInput(value)]
    /\ storage' = SavedRecord(selectedItems', splitPoints, siteAssignments)
    /\ pending' = LoadTree(selectedItems', splitPoints, pending)
    /\ lastAlert' = NoAlert
    /\ allocLog' = << >>
    /\ lastOp' = [name |-> "setItemLines"]
    /\ discarded' = "none"
    /\ nChanges' = nChanges + 1
    /\ UNCHANGED <<SITES, domReady, network, siteView, splitPoints, allocatableUnits, siteAssignments, nEdits>>

\* the selection of a new plan: whatever was selected is dropped and the item
\* is the only entry (name is a display string and is left out)
NewPlan(sel, itemId, lines) == << [id |-> itemId, lines |-> lines] >>

\* click on a quick button: a new plan with the button's item alone
quickSelect(itemId) ==
    /\ IF FindItem(itemId) = 0
       THEN /\ lastOp' = [name |-> "quickSelect", found |-> FALSE]
            /\ UNCHANGED <<selectedItems, splitPoints, siteAssignments, storage,
                           pending, nChanges>>
       ELSE /\ selectedItems' = NewPlan(selectedItems, itemId, One)
            /\ splitPoints' = {}
            /\ siteAssignments' = EmptyMap
            /\ storage' = SavedRecord(selectedItems', splitPoints', siteAssignments')
            /\ pending' = LoadTree(selectedItems', splitPoints', pending)
            /\ lastOp' = [name |-> "quickSelect", found |-> TRUE, itemId |-> itemId,
                         hadLines |-> siteAssignments # EmptyMap]
            /\ nChanges' = nChanges + 1
    /\ lastAlert' = NoAlert
    /\ allocLog' = << >>
    /\ discarded' = "none"
    /\ UNCHANGED <<SITES, domReady, network, siteView, allocatableUnits, nEdits>>

toggleSplitPoint(itemId) ==
    /\ IF CanToggle(selectedItems, itemId)
       THEN /\ splitPoints' = FlipSplitPoint(splitPoints, itemId)
            /\ siteAssignments' = EmptyMap
            /\ storage' = SavedRecord(selectedItems, splitPoints', siteAssignments')
            /\ pending' = LoadTree(selectedItems, splitPoints', pending)
            /\ lastOp' = [name |-> "toggleSplitPoint", toggled |-> TRUE,
                         hadLines |-> siteAssignments # EmptyMap]
            /\ nChanges' = nChanges + 1
       ELSE /\ lastOp' = [name |-> "toggleSplitPoint", toggled |-> FALSE,
                         selected |-> IsSelected(selectedItems, itemId)]
            /\ UNCHANGED <<splitPoints, siteAssignments, storage, pending, nChanges>>
    /\ lastAlert' = NoAlert
    /\ allocLog' = << >>
    /\ discarded' = "none"
    /\ UNCHANGED <<SITES, domReady, network, siteView, selectedItems, allocatableUnits, nEdits>>

\* click on the show-tree button: loadMultiProductionTree() and nothing else
showMultiTree ==
    /\ pending' = LoadTree(selectedItems, splitPoints, pending)
    /\ nChanges' = IF Len(selectedItems) = 0 THEN nChanges ELSE nChanges + 1
    /\ lastAlert' = NoAlert
    /\ allocLog' = << >>
    /\ lastOp' = [name |-> "showMultiTree"]
    /\ discarded' = "none"
    /\ UNCHANGED <<SITES, domReady, network, siteView, selectedItems, splitPoints, allocatableUnits, siteAssignments,
                   storage, nEdits>>

\* request i is answered OK: renderTree(data.tree), then
\* renderBundles(data.bundles, data.allocatable_units)
treeLoaded(i, data) ==
    /\ network' = renderTree(data.tree)
    /\ IF data.bundles = 0
       THEN /\ allocatableUnits' = << >>
            /\ siteView' = hideSiteAllocation(siteView)
            /\ UNCHANGED <<siteAssignments, storage>>
       ELSE /\ allocatableUnits' = data.allocatable_units
            /\ siteAssignments' = PruneTable(siteAssignments, allocatableUnits')
            /\ storage' = SavedRecord(selectedItems, splitPoints, siteAssignments')
            /\ siteView' = renderSiteAllocation(siteView, allocatableUnits',
                                                siteAssignments')
    /\ pending' = Settled(pending, i)
    /\ lastAlert' = NoAlert
    /\ allocLog' = << >>
    /\ lastOp' = [name |-> "renderBundles", stale |-> pending[i].stale,
                 hadLines |-> siteAssignments # EmptyMap,
                 sameIds |-> ListedIds(allocatableUnits') = ListedIds(allocatableUnits),
                 restored |-> lastOp.name = "initFromUrl" /\ lastOp.restored,
                 pruned |-> siteAssignments' # siteAssignments]
    /\ discarded' = "none"
    /\ UNCHANGED <<SITES, domReady, selectedItems, splitPoints, nEdits, nChanges>>

\* request i fails (fetch rejects, or the response is not OK): the catch branch
treeLoadFailed(i) ==
    /\ pending' = Settled(pending, i)
    /\ lastAlert' = LoadFailedAlert
    /\ allocLog' = << >>
    /\ lastOp' = [name |-> "loadFailed", hadLines |-> siteAssignments # EmptyMap]
    /\ discarded' = "none"
    /\ UNCHANGED <<SITES, domReady, network, siteView, selectedItems, splitPoints, allocatableUnits, siteAssignments,
                   storage, nEdits, nChanges>>

\* values of the item parameter of the page URL; "" is a URL without it
UrlItems == {"", "a", "r", "x"}

\* getUrlParams().lines: parseInt of the parameter, null without it
UrlLinesValue(text) == IF text = << >> THEN Null ELSE ParseInt(text)

\* params.lines || 1
LinesOfUrl(text) == OrElse(UrlLinesValue(text), One)

\* params.item names a catalogue item that is not raw
UrlSelects(item) ==
    /\ item # ""
    /\ FindItem(item) # 0
    /\ ~Catalogue[FindItem(item)].is_raw

\* the page is loaded again and its script evaluated: the module state starts
\* over, the listeners are registered, nothing is rendered, and the requests
\* of the page before get no answer here; initFromUrl waits for
\* DOMContentLoaded
loadPage ==
    /\ selectedItems' = << >>
    /\ splitPoints' = {}
    /\ allocatableUnits' = << >>
    /\ siteAssignments' = EmptyMap
    /\ pending' = << >>
    /\ siteView' = NoView
    /\ network' = NoNetwork
    /\ domReady' = FALSE
    /\ nEarly' = 0
    /\ lastAlert' = NoAlert
    /\ allocLog' = << >>
    /\ lastOp' = [name |-> "loadPage"]
    /\ discarded' = "none"
    /\ nChanges' = nChanges + 1
    /\ UNCHANGED <<SITES, storage, nEdits>>

\* DOMContentLoaded of a page whose URL has these parameters: a URL item that
\* selects takes over, else the saved record is restored
initFromUrl(item, lines) ==
    LET loaded == loadState(storage, selectedItems, splitPoints, siteAssignments)
    IN /\ ~domReady
       /\ domReady' = TRUE
       /\ nEarly' = 0
       /\ IF UrlSelects(item)
          THEN /\ selectedItems' = NewPlan(selectedItems, item, LinesOfUrl(lines))
               /\ splitPoints' = {}
               /\ siteAssignments' = EmptyMap
               /\ storage' = SavedRecord(selectedItems', splitPoints', siteAssignments')
               /\ pending' = LoadTree(selectedItems', splitPoints', pending)
               /\ lastOp' = [name |-> "initFromUrl", restored |-> FALSE,
                            started |-> TRUE, itemId |-> item]
               /\ nChanges' = nChanges + 1
          ELSE /\ selectedItems' = loaded.selectedItems
               /\ splitPoints' = loaded.splitPoints
               /\ siteAssignments' = loaded.siteAssignments
               /\ pending' = IF loaded.ok THEN LoadTree(selectedItems', splitPoints', pending)
                                          ELSE pending
               /\ lastOp' = [name |-> "initFromUrl", restored |-> loaded.ok,
                            started |-> FALSE]
               /\ UNCHANGED <<storage, nChanges>>
       /\ lastAlert' = NoAlert
       /\ allocLog' = << >>
       /\ discarded' = "none"
       /\ UNCHANGED <<SITES, allocatableUnits, siteView, network, nEdits>>

\* clearState(): the record is removed, memory stays
clearState ==
    /\ storage' = NoState
    /\ lastAlert' = NoAlert
    /\ allocLog' = << >>
    /\ lastOp' = [name |-> "clearState"]
    /\ discarded' = "none"
    /\ nChanges' = nChanges + 1
    /\ UNCHANGED <<SITES, selectedItems, splitPoints, allocatableUnits, siteAssignments,
                   pending, siteView, network, domReady, nEdits>>

\* the pairs the site cards show with a remove button: one for each entry
\* getSiteUnits gave at the last render (a listed bundle with a count above 0
\* on the site), none while the section is hidden
ShownPairs ==
    {pair \in {<<siteView.units[i].id, siteId>> :
                  i \in 1..Len(siteView.units), siteId \in SiteIds} :
        CountAt(AssignmentsOf(siteView.table, pair[1]), pair[2]) > 0}

\* the bundles the assign selects offer: the entries getUnassignedUnits gave
\* at the last render, none while the section is hidden
OfferedIds ==
    LET unassigned == getUnassignedUnits(siteView.units, siteView.table)
    IN {unassigned[i].id : i \in 1..Len(unassigned)}

\* a handler runs once the document is ready, or early, between the
\* evaluation of the script and DOMContentLoaded
HandlerRuns ==
    /\ ~domReady => nEarly < MaxEarly
    /\ nEarly' = IF domReady THEN nEarly ELSE nEarly + 1

\* the page as its controls drive it: the controls of the selection, the
\* responses of the tree service, the controls the site cards showed at their
\* last render, clearState() called from outside the script, and page loads
SessionNext ==
    \/ /\ HandlerRuns
       /\ \/ /\ nChanges < MaxChanges
             /\ \/ \E itemId \in AddableIds : addItem(itemId)
                \/ \E index \in 1..Len(selectedItems) : removeItem(index)
                \/ \E index \in 1..Len(selectedItems), delta \in {-1, 1} :
                      adjustItemLines(index, delta)
                \/ \E index \in 1..Len(selectedItems), value \in LineInputs :
                      setItemLines(index, value)
                \/ \E itemId \in QuickIds : quickSelect(itemId)
                \/ \E itemId \in ClickableIds(network) : toggleSplitPoint(itemId)
                \/ showMultiTree
                \/ clearState
          \/ \E i \in 1..Len(pending), data \in TreeResponses : treeLoaded(i, data)
          \/ \E i \in 1..Len(pending) : treeLoadFailed(i)
          \/ /\ nEdits < MaxEdits
             /\ \E unitId \in OfferedIds, siteId \in SiteIds : assignUnit(unitId, siteId, 1)
          \/ \E pair \in ShownPairs :
                /\ nEdits < MaxEdits \/ UndoesAssign(pair[1], pair[2])
                /\ unassignUnit(pair[1], pair[2])
          \/ /\ siteView.visible
             /\ \/ resetAllocation
                \/ autoAllocateUnits
    \/ /\ nChanges < MaxChanges
       /\ \/ loadPage
          \/ \E item \in {id \in UrlItems : UrlSelects(id)}, lines \in UrlLines :
                initFromUrl(item, lines)
    \/ \E item \in {id \in UrlItems : ~UrlSelects(id)} : initFromUrl(item, << >>)

Session == SessionInit /\ [][SessionNext]_vars

\* the page driven through the controls that split points depend on alone,
\* for one change more: the add and remove buttons of the selection, the
\* responses of the tree service and the clicks on the nodes of the drawn
\* network
SplittingNext ==
    /\ HandlerRuns
    /\ \/ /\ nChanges < MaxSplitChanges
          /\ \/ \E itemId \in AddableIds : addItem(itemId)
             \/ \E index \in 1..Len(selectedItems) : removeItem(index)
             \/ \E itemId \in ClickableIds(network) : toggleSplitPoint(itemId)
       \/ \E i \in 1..Len(pending), data \in TreeResponses : treeLoaded(i, data)

Splitting == SessionInit /\ [][SplittingNext]_vars

----------------------------------------------------------------------------
(* Properties of the allocation engine *)

AfterAuto == lastOp.name = "autoAllocateUnits"

SiteIndexes == 1..Len(SITES)
UnitIndexes == 1..Len(allocatableUnits)

UsedPorts(siteId) == getSiteUsedPorts(allocatableUnits, siteAssignments, siteId)

\* C1: after autoAllocateUnits no site of the registry uses more ports than
\* its capacity, whatever table the run discarded.
C1_AutoWithinCapacity ==
    AfterAuto => \A k \in SiteIndexes : UsedPorts(SITES[k].id) <= SITES[k].ports

\* a run that discarded a non-empty table and filled some site to the brim
C1_Witness ==
    /\ AfterAuto
    /\ discarded = "other"
    /\ \E k \in SiteIndexes : UsedPorts(SITES[k].id) = SITES[k].ports
    /\ \E k \in SiteIndexes : UsedPorts(SITES[k].id) \in 1..(SITES[k].ports - 1)

\* C2: after autoAllocateUnits every bundle has at most total_lines lines
\* assigned over all sites and every stored count is a non-negative integer.
C2_AutoWithinTotalLines ==
    AfterAuto =>
        /\ \A i \in UnitIndexes :
              getAssignedCount(siteAssignments, allocatableUnits[i].id)
                 <= allocatableUnits[i].total_lines
        /\ \A u \in DOMAIN siteAssignments : \A s \in DOMAIN siteAssignments[u] :
              siteAssignments[u][s] \in Nat

\* a bundle whose lines were all placed, spread over two sites, next to a
\* bundle that kept a line unplaced
C2_Witness ==
    /\ AfterAuto
    /\ \E i \in UnitIndexes :
          /\ getAssignedCount(siteAssignments, allocatableUnits[i].id)
                = allocatableUnits[i].total_lines
          /\ Cardinality(DOMAIN AssignmentsOf(siteAssignments, allocatableUnits[i].id)) >= 2
    /\ \E i \in UnitIndexes :
          getUnassignedCount(allocatableUnits, siteAssignments, allocatableUnits[i].id) > 0

\* ports placed on a site by the first n decisions of the log
RECURSIVE PlacedPorts(_, _, _)
PlacedPorts(log, n, siteId) ==
    IF n = 0 THEN 0
    ELSE (IF log[n].bestSite = siteId THEN log[n].portPerLine ELSE 0)
         + PlacedPorts(log, n - 1, siteId)

\* sites of the registry with room for the line of a decision
Feasible(e) == {k \in SiteIndexes : e.remaining[SITES[k].id] >= e.portPerLine}

\* C3: every line autoAllocateUnits places goes to the site with the least
\* capacity left after placement among the sites that can hold it, the first
\* such site in registry order on a tie; the table holds exactly these
\* placements.
C3_BestFitFirstOnTie ==
    AfterAuto =>
        /\ \A n \in DOMAIN allocLog :
              LET e == allocLog[n]
              IN /\ \A k \in SiteIndexes :
                       e.remaining[SITES[k].id]
                          = SITES[k].ports - PlacedPorts(allocLog, n - 1, SITES[k].id)
                 /\ Feasible(e) # {} =>
                       \E k \in Feasible(e) :
                          /\ e.bestSite = SITES[k].id
                          /\ \A j \in Feasible(e) :
                                /\ e.remaining[SITES[j].id] >= e.remaining[SITES[k].id]
                                /\ e.remaining[SITES[j].id] = e.remaining[SITES[k].id]
                                      => k <= j
        /\ \A u \in UnitIds : \A s \in SiteIds :
              CountAt(AssignmentsOf(siteAssignments, u), s)
                 = Cardinality({n \in DOMAIN allocLog :
                                   allocLog[n].unitId = u /\ allocLog[n].bestSite = s})

\* a line that skipped the first site of the registry, which had room, for a
\* tighter one, chosen among several equally tight sites
C3_Witness ==
    /\ AfterAuto
    /\ \E n \in DOMAIN allocLog :
          LET e == allocLog[n]
          IN /\ 1 \in Feasible(e)
             /\ e.bestSite # NoSite
             /\ e.bestSite # SITES[1].id
             /\ \E j \in Feasible(e) :
                   /\ SITES[j].id # e.bestSite
                   /\ e.remaining[SITES[j].id] = e.remaining[e.bestSite]

\* C4: after autoAllocateUnits, a bundle with lines left unassigned finds no
\* site whose remaining capacity reaches its per-line port cost.
C4_UnplacedOnlyWhenNoRoom ==
    AfterAuto =>
        \A i \in UnitIndexes :
            getUnassignedCount(allocatableUnits, siteAssignments, allocatableUnits[i].id) > 0
            => \A k \in SiteIndexes :
                  SITES[k].ports - UsedPorts(SITES[k].id) < allocatableUnits[i].port_per_line

\* a bundle placed in part, with capacity left on some site
C4_Witness ==
    /\ AfterAuto
    /\ \E i \in UnitIndexes :
          /\ getUnassignedCount(allocatableUnits, siteAssignments, allocatableUnits[i].id) > 0
          /\ getAssignedCount(siteAssignments, allocatableUnits[i].id) > 0
    /\ \E k \in SiteIndexes : SITES[k].ports - UsedPorts(SITES[k].id) > 0

\* the scenario of C5: sites of 52 and 19 ports, one bundle of 4 lines of 13 ports
BestFitScenario ==
    /\ Len(SITES) = 2
    /\ {SITES[1].ports, SITES[2].ports} = {52, 19}
    /\ Len(allocatableUnits) = 1
    /\ allocatableUnits[1].port_per_line = 13
    /\ allocatableUnits[1].total_lines = 4

\* C5: in that scenario autoAllocateUnits puts 1 line on the 19-port site
\* (6 ports left) and 3 lines on the 52-port site (13 ports left) and leaves
\* no line unassigned.
C5_BestFitScenario ==
    (AfterAuto /\ BestFitScenario) =>
        /\ \A k \in SiteIndexes :
              LET count == CountAt(AssignmentsOf(siteAssignments, allocatableUnits[1].id),
                                   SITES[k].id)
                  left == SITES[k].ports - UsedPorts(SITES[k].id)
              IN IF SITES[k].ports = 19
                 THEN count = 1 /\ left = 6
                 ELSE count = 3 /\ left = 13
        /\ getUnassignedCount(allocatableUnits, siteAssignments, allocatableUnits[1].id) = 0
        /\ getUnassignedUnits(allocatableUnits, siteAssignments) = << >>
        /\ lastAlert = NoAlert

C5_Witness == AfterAuto /\ BestFitScenario /\ siteAssignments # EmptyMap

\* the bundle list without its i-th bundle
Without(units, i) == SubSeq(units, 1, i - 1) \o SubSeq(units, i + 1, Len(units))

\* bundles whose per-line port cost exceeds the capacity of every site
Oversized == {i \in UnitIndexes :
                 \A k \in SiteIndexes : allocatableUnits[i].port_per_line > SITES[k].ports}

\* C6: after autoAllocateUnits a bundle too large for every site has all its
\* lines among the unassigned ones that the alert reports, has no entry in the
\* table, and leaves every site's used ports as they are without that bundle.
C6_OversizedBundleLeftOut ==
    AfterAuto =>
        \A i \in Oversized :
            LET unit == allocatableUnits[i]
                others == Without(allocatableUnits, i)
                unassigned == getUnassignedUnits(allocatableUnits, siteAssignments)
            IN /\ unit.id \notin DOMAIN siteAssignments
               /\ \E n \in DOMAIN unassigned :
                     unassigned[n].id = unit.id /\ unassigned[n].remaining = unit.total_lines
               /\ lastAlert.shown
               /\ lastAlert.lines >= unit.total_lines
               /\ lastAlert.ports >= unit.total_lines * unit.port_per_line
               /\ \A k \in SiteIndexes :
                     UsedPorts(SITES[k].id)
                        = getSiteUsedPorts(others,
                                           AutoAllocate(SITES, others, EmptyMap).table,
                                           SITES[k].id)

\* an oversized bundle ahead of a bundle that was placed
C6_Witness ==
    /\ AfterAuto
    /\ 1 \in Oversized
    /\ \E k \in SiteIndexes : UsedPorts(SITES[k].id) > 0

\* lines of the last autoAllocateUnits run that found no site
Unplaced == {n \in DOMAIN allocLog : allocLog[n].bestSite = NoSite}

RECURSIVE UnplacedPorts(_, _)
UnplacedPorts(log, n) ==
    IF n = 0 THEN 0
    ELSE (IF log[n].bestSite = NoSite THEN log[n].portPerLine ELSE 0)
         + UnplacedPorts(log, n - 1)

\* C7 as stated: autoAllocateUnits always reports the number of lines it did
\* not place and the sum of their port costs, zero and zero when every line
\* was placed.
C7_AlwaysReportsCounts ==
    AfterAuto =>
        /\ lastAlert.shown
        /\ lastAlert.lines = Cardinality(Unplaced)
        /\ lastAlert.ports = UnplacedPorts(allocLog, Len(allocLog))

\* C7 amended: autoAllocateUnits reports the number of lines it did not place
\* and the sum of their port costs when at least one line is unplaced, and
\* reports nothing when every line was placed.
C7_ReportsUnplacedOnly ==
    AfterAuto =>
        IF Unplaced # {}
        THEN /\ lastAlert.shown
             /\ lastAlert.lines = Cardinality(Unplaced)
             /\ lastAlert.ports = UnplacedPorts(allocLog, Len(allocLog))
        ELSE lastAlert = NoAlert

\* a run that left several lines of one bundle unplaced and placed others
C7_Witness ==
    /\ AfterAuto
    /\ lastAlert.shown
    /\ lastAlert.lines >= 2
    /\ siteAssignments # EmptyMap

\* C8: the table autoAllocateUnits leaves does not depend on the table it
\* found: it is the table a run from the empty table produces for the same
\* bundle list and site registry.
C8_AutoIgnoresPriorTable ==
    AfterAuto => siteAssignments = AutoAllocate(SITES, allocatableUnits, EmptyMap).table

\* a run that discarded a table different from the one it built
C8_Witness ==
    /\ AfterAuto
    /\ discarded = "other"
    /\ siteAssignments # EmptyMap

\* the count stored for a pair, 0 if absent
Stored(sa, unitId, siteId) == CountAt(AssignmentsOf(sa, unitId), siteId)

\* C9: assignUnit(unitId, siteId, count) is always possible and adds count to
\* the count of its pair, whatever the capacity and the total line count, and
\* changes no other pair.
C9_AssignAddsCount ==
    /\ [](nEdits < MaxEdits =>
            \A u \in UnitIds, s \in SiteIds, c \in {1, MaxAssignCount} :
                ENABLED assignUnit(u, s, c))
    /\ [][lastOp'.name = "assignUnit" =>
          \A u \in UnitIds, s \in SiteIds, c \in {1, MaxAssignCount} :
            assignUnit(u, s, c) =>
               /\ Stored(siteAssignments', u, s) = Stored(siteAssignments, u, s) + c
               /\ \A u2 \in UnitIds, s2 \in SiteIds :
                     <<u2, s2>> # <<u, s>> =>
                        Stored(siteAssignments', u2, s2) = Stored(siteAssignments, u2, s2)
               /\ DOMAIN siteAssignments' = DOMAIN siteAssignments \cup {u}
               /\ \A u2 \in DOMAIN siteAssignments :
                     DOMAIN siteAssignments'[u2]
                        = DOMAIN siteAssignments[u2] \cup (IF u2 = u THEN {s} ELSE {})]_vars

\* an assign on a pair that already had lines, ending above the bundle's
\* total line count and above the site's capacity
C9_Witness ==
    /\ lastOp.name = "assignUnit"
    /\ lastOp.pairHadLines
    /\ \E i \in UnitIndexes :
          getAssignedCount(siteAssignments, allocatableUnits[i].id)
             > allocatableUnits[i].total_lines
    /\ \E k \in SiteIndexes : UsedPorts(SITES[k].id) > SITES[k].ports

\* C10: an assign of a bundle of the list to a site whose used ports equal
\* its capacity goes through and leaves the site's used ports above capacity.
C10_AssignOverFullSite ==
    [][lastOp'.name = "assignUnit" =>
       \A u \in UnitIds, s \in SiteIds, c \in {1, MaxAssignCount} :
          (/\ assignUnit(u, s, c)
           /\ FindUnit(allocatableUnits, u) # 0
           /\ getSiteUsedPorts(allocatableUnits, siteAssignments, s) = SitePorts(s))
          => getSiteUsedPorts(allocatableUnits', siteAssignments', s) > SitePorts(s)]_vars

\* an assign that met a full site
C10_Witness ==
    /\ lastOp.name = "assignUnit"
    /\ lastOp.siteWasFull
    /\ \E k \in SiteIndexes : UsedPorts(SITES[k].id) > SITES[k].ports

\* the pair (unitId, siteId) has an entry in the table
HasPair(sa, unitId, siteId) == unitId \in DOMAIN sa /\ siteId \in DOMAIN sa[unitId]

\* C11: unassignUnit(unitId, siteId) removes the whole entry of its pair,
\* whatever the count; the bundle's sub-mapping goes when no site is left in
\* it; every other pair keeps its entry and count; on a pair without an
\* entry the table stays as it was.
C11_UnassignRemovesPair ==
    [][lastOp'.name = "unassignUnit" =>
       \A u \in UnitIds, s \in SiteIds :
          unassignUnit(u, s) =>
             /\ ~HasPair(siteAssignments', u, s)
             /\ \A u2 \in UnitIds, s2 \in SiteIds :
                   <<u2, s2>> # <<u, s>> =>
                      /\ HasPair(siteAssignments', u2, s2) = HasPair(siteAssignments, u2, s2)
                      /\ Stored(siteAssignments', u2, s2) = Stored(siteAssignments, u2, s2)
             /\ DOMAIN siteAssignments' \subseteq DOMAIN siteAssignments
             /\ \A u2 \in DOMAIN siteAssignments :
                   u2 \in DOMAIN siteAssignments'
                      <=> (u2 # u \/ DOMAIN siteAssignments[u] \ {s} # {})
             /\ ~HasPair(siteAssignments, u, s) => siteAssignments' = siteAssignments]_vars

\* an unassign that removed a count above 1 and left other entries behind
C11_Witness ==
    /\ lastOp.name = "unassignUnit"
    /\ lastOp.removed > 1
    /\ siteAssignments # EmptyMap

\* C13: after resetAllocation the table and the table of the saved record
\* are empty, every site uses 0 ports and every bundle of the list has all
\* its lines unassigned.
C13_ResetEmptiesTable ==
    lastOp.name = "resetAllocation" =>
       /\ siteAssignments = EmptyMap
       /\ storage.saved
       /\ storage.siteAssignments = EmptyMap
       /\ \A k \in SiteIndexes : UsedPorts(SITES[k].id) = 0
       /\ \A i \in UnitIndexes :
             getUnassignedCount(allocatableUnits, siteAssignments, allocatableUnits[i].id)
                = allocatableUnits[i].total_lines

\* a reset of a table that held lines, with bundles in the list
C13_Witness ==
    /\ lastOp.name = "resetAllocation"
    /\ lastOp.hadLines
    /\ Len(allocatableUnits) > 0

----------------------------------------------------------------------------
(* Properties of the read-side queries *)

\* the lines of the i-th bundle of the list not yet placed on any site
RemainingOf(i) ==
    allocatableUnits[i].total_lines
       - getAssignedCount(siteAssignments, allocatableUnits[i].id)

\* the k-th smallest index of a set of list indexes
NthOf(indexes, k) ==
    CHOOSE i \in indexes : Cardinality({j \in indexes : j < i}) = k - 1

\* C22: getUnassignedUnits lists, in list order, exactly the bundles whose
\* total line count exceeds their assigned count, each with that difference
\* as its remaining count; an over-allocated bundle is never listed.
C22_UnassignedListsRemaining ==
    LET listed == getUnassignedUnits(allocatableUnits, siteAssignments)
        open == {i \in UnitIndexes : RemainingOf(i) > 0}
    IN /\ Len(listed) = Cardinality(open)
       /\ \A k \in 1..Len(listed) :
             LET i == NthOf(open, k)
             IN listed[k] = [id |-> allocatableUnits[i].id,
                             port_per_line |-> allocatableUnits[i].port_per_line,
                             total_lines |-> allocatableUnits[i].total_lines,
                             remaining |-> RemainingOf(i)]
       /\ \A i \in UnitIndexes :
             RemainingOf(i) < 0 =>
                \A k \in 1..Len(listed) : listed[k].id # allocatableUnits[i].id

\* a manual assign has over-allocated one bundle while another still has
\* lines to place
C22_Witness ==
    /\ lastOp.name = "assignUnit"
    /\ \E i \in UnitIndexes : RemainingOf(i) < 0
    /\ Len(getUnassignedUnits(allocatableUnits, siteAssignments)) = 1
    /\ Len(allocatableUnits) = 2

\* the ports the first i bundles of the list have on a site, by the table
RECURSIVE ListedPorts(_, _)
ListedPorts(siteId, i) ==
    IF i = 0 THEN 0
    ELSE Stored(siteAssignments, allocatableUnits[i].id, siteId)
            * allocatableUnits[i].port_per_line
         + ListedPorts(siteId, i - 1)

\* the table holds a count for a bundle id the list does not have
StaleKeyOn(siteId) ==
    \E unitId \in DOMAIN siteAssignments :
       /\ FindUnit(allocatableUnits, unitId) = 0
       /\ Stored(siteAssignments, unitId, siteId) > 0

\* C23: getSiteUsedPorts(site) is the sum, over the bundles of the current
\* list, of the count the table holds for (bundle, site) times the bundle's
\* port cost; table entries of unlisted bundle ids contribute nothing.
C23_UsedPortsOverListed ==
    \A k \in SiteIndexes :
       UsedPorts(SITES[k].id) = ListedPorts(SITES[k].id, Len(allocatableUnits))

\* a site holds two lines of a listed bundle and a line of an unlisted id
C23_Witness ==
    \E k \in SiteIndexes :
       /\ StaleKeyOn(SITES[k].id)
       /\ \E i \in UnitIndexes :
             Stored(siteAssignments, allocatableUnits[i].id, SITES[k].id) > 1
       /\ UsedPorts(SITES[k].id) > 0

\* the sum of the port totals of the entries of a site list
RECURSIVE SumAssignedPorts(_, _)
SumAssignedPorts(entries, n) ==
    IF n = 0 THEN 0 ELSE entries[n].assigned_ports + SumAssignedPorts(entries, n - 1)

\* C30: getSiteUnits(site) lists, in list order, exactly the bundles with a
\* positive count on the site, each with that count and count times port
\* cost as its port total, and the port totals add up to
\* getSiteUsedPorts(site).
C30_SiteUnitsMatchUsedPorts ==
    \A s \in SiteIndexes :
       LET siteId == SITES[s].id
           entries == getSiteUnits(allocatableUnits, siteAssignments, siteId)
           placed == {i \in UnitIndexes :
                        Stored(siteAssignments, allocatableUnits[i].id, siteId) > 0}
       IN /\ Len(entries) = Cardinality(placed)
          /\ \A k \in 1..Len(entries) :
                LET i == NthOf(placed, k)
                    count == Stored(siteAssignments, allocatableUnits[i].id, siteId)
                IN /\ entries[k].id = allocatableUnits[i].id
                   /\ entries[k].port_per_line = allocatableUnits[i].port_per_line
                   /\ entries[k].total_lines = allocatableUnits[i].total_lines
                   /\ entries[k].assigned_count = count
                   /\ entries[k].assigned_ports
                         = count * allocatableUnits[i].port_per_line
          /\ SumAssignedPorts(entries, Len(entries)) = UsedPorts(siteId)

\* a site lists two bundles, one of them with several lines, and another site
\* lists one of the two
C30_Witness ==
    \E s, t \in SiteIndexes :
       LET entries == getSiteUnits(allocatableUnits, siteAssignments, SITES[s].id)
           others == getSiteUnits(allocatableUnits, siteAssignments, SITES[t].id)
       IN /\ Len(entries) = 2
          /\ \E k \in 1..2 : entries[k].assigned_count > 1
          /\ Len(others) = 1

----------------------------------------------------------------------------
(* Order and conservation of the automatic allocation *)

\* C26: autoAllocateUnits takes the lines in non-increasing order of port cost
\* and, among lines of the same cost, in the order of their bundles in the
\* list; so when a bundle is left with an unplaced line, no later bundle of
\* the same cost has any line placed.
C26_DecreasingStableOrder ==
    AfterAuto =>
       /\ Len(allocLog) = SumLines(allocatableUnits)
       /\ \A m, n \in 1..Len(allocLog) :
             m < n =>
                /\ allocLog[m].portPerLine >= allocLog[n].portPerLine
                /\ allocLog[m].portPerLine = allocLog[n].portPerLine =>
                      FindUnit(allocatableUnits, allocLog[m].unitId)
                         <= FindUnit(allocatableUnits, allocLog[n].unitId)
       /\ \A i, j \in UnitIndexes :
             /\ i < j
             /\ allocatableUnits[i].port_per_line = allocatableUnits[j].port_per_line
             /\ RemainingOf(i) > 0
             => getAssignedCount(siteAssignments, allocatableUnits[j].id) = 0

\* a run over two bundles of the same cost that left a line of the first one
\* unplaced, and with it every line of the second
C26_Witness ==
    /\ AfterAuto
    /\ Len(allocLog) >= 3
    /\ \E i, j \in UnitIndexes :
          /\ i < j
          /\ allocatableUnits[i].port_per_line = allocatableUnits[j].port_per_line
          /\ RemainingOf(i) > 0
          /\ getAssignedCount(siteAssignments, allocatableUnits[j].id) = 0

\* the ports in use over all the sites of the registry
RECURSIVE UsedPortsUpTo(_)
UsedPortsUpTo(k) ==
    IF k = 0 THEN 0 ELSE UsedPorts(SITES[k].id) + UsedPortsUpTo(k - 1)

\* the ports the first i bundles of the list need in all
RECURSIVE NeededPorts(_)
NeededPorts(i) ==
    IF i = 0 THEN 0
    ELSE allocatableUnits[i].total_lines * allocatableUnits[i].port_per_line
         + NeededPorts(i - 1)

\* the decisions of the last run about one bundle
LogOf(unitId) == {n \in 1..Len(allocLog) : allocLog[n].unitId = unitId}

\* C29: autoAllocateUnits neither loses nor duplicates a line: every bundle
\* has exactly total_lines decisions, its assigned count is the number of its
\* placed lines, assigned and unassigned counts are non-negative and add up to
\* total_lines, and the ports in use over all sites plus the unassigned port
\* total are the ports all the bundles need.
C29_AutoConservesLines ==
    AfterAuto =>
       /\ UsedPortsUpTo(Len(SITES))
             + SumRemainingPorts(getUnassignedUnits(allocatableUnits, siteAssignments))
          = NeededPorts(Len(allocatableUnits))
       /\ \A i \in UnitIndexes :
             LET unit == allocatableUnits[i]
                 assigned == getAssignedCount(siteAssignments, unit.id)
                 unassigned == getUnassignedCount(allocatableUnits, siteAssignments, unit.id)
             IN /\ assigned >= 0
                /\ unassigned >= 0
                /\ assigned + unassigned = unit.total_lines
                /\ Cardinality(LogOf(unit.id)) = unit.total_lines
                /\ Cardinality({n \in LogOf(unit.id) : allocLog[n].bestSite # NoSite})
                      = assigned

\* a run that placed lines of two bundles on several sites and left lines of
\* one of them unplaced
C29_Witness ==
    /\ AfterAuto
    /\ Len(allocatableUnits) = 2
    /\ \A i \in UnitIndexes : getAssignedCount(siteAssignments, allocatableUnits[i].id) > 0
    /\ \E i \in UnitIndexes : RemainingOf(i) > 0
    /\ Cardinality({k \in SiteIndexes : UsedPorts(SITES[k].id) > 0}) >= 2

\* the capacity of the largest site of the registry
LargestSitePorts ==
    SITES[CHOOSE k \in SiteIndexes : \A j \in SiteIndexes : SITES[j].ports <= SITES[k].ports].ports

\* the ports all the bundles of the list need fit the largest site alone
FitsLargestSite == NeededPorts(Len(allocatableUnits)) <= LargestSitePorts

\* C31: when the ports all the bundles need (total_lines times port cost,
\* summed) are at most the capacity of the largest site, autoAllocateUnits
\* places every line of every bundle and raises no alert.
C31_SmallDemandFullyPlaced ==
    AfterAuto /\ FitsLargestSite =>
       /\ \A i \in UnitIndexes :
             getAssignedCount(siteAssignments, allocatableUnits[i].id)
                = allocatableUnits[i].total_lines
       /\ \A n \in 1..Len(allocLog) : allocLog[n].bestSite # NoSite
       /\ getUnassignedUnits(allocatableUnits, siteAssignments) = << >>
       /\ lastAlert = NoAlert

\* a run over two bundles whose demand is exactly the capacity of the largest
\* site, spread by best fit over more than one site
C31_Witness ==
    /\ AfterAuto
    /\ Len(allocatableUnits) = 2
    /\ NeededPorts(Len(allocatableUnits)) = LargestSitePorts
    /\ Cardinality({k \in SiteIndexes : UsedPorts(SITES[k].id) > 0}) >= 2
    /\ lastAlert = NoAlert

----------------------------------------------------------------------------
(* Properties of the planning session *)

AfterUndo == lastOp.name = "unassignUnit" /\ lastOp.undoes

\* C12 as stated: an assignUnit on a pair followed at once by unassignUnit of
\* the same pair leaves the pair with the count it had before the assign,
\* also when that count was positive.
C12_AssignUnassignRestoresPair ==
    AfterUndo =>
       Stored(siteAssignments, lastOp.unitId, lastOp.siteId) = lastOp.pairBefore

\* C12 amended: an assignUnit on a pair followed at once by unassignUnit of
\* the same pair leaves the pair without an entry, so the pair is back at its
\* prior count exactly when it had none before the assign.
C12_AssignUnassignClearsPair ==
    AfterUndo =>
       /\ ~HasPair(siteAssignments, lastOp.unitId, lastOp.siteId)
       /\ (Stored(siteAssignments, lastOp.unitId, lastOp.siteId) = lastOp.pairBefore)
             <=> (lastOp.pairBefore = 0)

\* an assign on a pair that had no entry, undone, in a table with other entries
C12_Witness ==
    /\ AfterUndo
    /\ lastOp.pairBefore = 0
    /\ lastOp.removed = 1
    /\ siteAssignments # EmptyMap

AfterResponse == lastOp.name = "renderBundles"

\* C14 as stated: once a tree response has been applied, every key of the
\* table is the id of a bundle of the list just received, an empty list
\* included.
C14_TableKeysListed ==
    AfterResponse => DOMAIN siteAssignments \subseteq ListedIds(allocatableUnits)

\* C15: applying a tree response keeps the sub-mapping of every bundle id of
\* the new list as it was and adds none; when the new list has the ids of the
\* old one the whole table is as before.
C15_PruningKeepsListed ==
    [][lastOp'.name = "renderBundles" =>
       \A i \in 1..Len(pending), data \in TreeResponses :
          treeLoaded(i, data) =>
             /\ \A u \in ListedIds(data.allocatable_units) :
                   /\ (u \in DOMAIN siteAssignments') = (u \in DOMAIN siteAssignments)
                   /\ u \in DOMAIN siteAssignments => siteAssignments'[u] = siteAssignments[u]
             /\ ListedIds(data.allocatable_units) = ListedIds(allocatableUnits)
                   => siteAssignments' = siteAssignments]_vars

\* a response that dropped one bundle's lines and kept another's
C15_Witness ==
    /\ AfterResponse
    /\ lastOp.hadLines
    /\ ~lastOp.sameIds
    /\ siteAssignments # EmptyMap
    /\ storage.siteAssignments = siteAssignments
    /\ Len(allocatableUnits) = 1

\* C16: toggleSplitPoint on an item that is raw, not in the catalogue or
\* selected changes neither the split points, the table, the bundle list nor
\* the saved record, and sends no tree request.
C16_IneligibleToggleNoOp ==
    [][lastOp'.name = "toggleSplitPoint" =>
       \A itemId \in ItemIds :
          (/\ toggleSplitPoint(itemId)
           /\ itemId \notin AddableIds \/ IsSelected(selectedItems, itemId))
          => UNCHANGED <<splitPoints, siteAssignments, allocatableUnits, storage,
                         pending, selectedItems>>]_vars

\* a refused toggle of a selected item while the table holds lines
C16_Witness ==
    /\ lastOp.name = "toggleSplitPoint"
    /\ ~lastOp.toggled
    /\ lastOp.selected
    /\ siteAssignments # EmptyMap
    /\ Len(allocatableUnits) > 0

\* what every toggle of an eligible item does before it asks for the tree
ToggleEffect(itemId) ==
    /\ splitPoints' = IF itemId \in splitPoints THEN splitPoints \ {itemId}
                      ELSE splitPoints \cup {itemId}
    /\ siteAssignments' = EmptyMap
    /\ storage'.saved
    /\ storage'.splitPoints = splitPoints'
    /\ storage'.siteAssignments = EmptyMap

\* one more request in flight, carrying the new split points and the
\* selection as JSON writes it
ToggleRequest ==
    /\ Len(pending') = Len(pending) + 1
    /\ pending'[Len(pending')].split_points = splitPoints'
    /\ pending'[Len(pending')].items = JsonItems(selectedItems)

Eligible(itemId) == itemId \in AddableIds /\ ~IsSelected(selectedItems, itemId)

\* C17: every toggle of an eligible item flips its membership, empties the
\* table, saves the new split points with the empty table and sends a tree
\* request carrying the new split points.
C17_ToggleAlwaysRequests ==
    [][lastOp'.name = "toggleSplitPoint" =>
       \A itemId \in ItemIds :
          (toggleSplitPoint(itemId) /\ Eligible(itemId))
          => (ToggleEffect(itemId) /\ ToggleRequest)]_vars

\* C18: every split point is an item that is not raw and is not selected.
C18_SplitPointsEligible ==
    \A itemId \in splitPoints :
       itemId \in AddableIds /\ ~IsSelected(selectedItems, itemId)

\* C19 as stated: the response to a request that was followed by a newer
\* request is dropped: it changes neither the bundle list nor the table.
C19_StaleResponseDiscarded ==
    [][\A i \in 1..Len(pending), data \in TreeResponses :
          (pending[i].stale /\ treeLoaded(i, data))
          => UNCHANGED <<allocatableUnits, siteAssignments>>]_vars

\* C20: a failed tree request raises the failure alert, sends no request in
\* its place, and leaves the table, the bundle list, the selection and the
\* split points as they were.
C20_FailureKeepsState ==
    [][lastOp'.name = "loadFailed" =>
       \A i \in 1..Len(pending) :
          treeLoadFailed(i) =>
             /\ lastAlert'.shown
             /\ pending' = Splice(pending, i)
             /\ UNCHANGED <<siteAssignments, allocatableUnits, selectedItems,
                            splitPoints>>]_vars

\* a failure met with lines in the table and bundles in the list
C20_Witness ==
    /\ lastOp.name = "loadFailed"
    /\ lastOp.hadLines
    /\ lastAlert = LoadFailedAlert
    /\ siteAssignments # EmptyMap
    /\ Len(allocatableUnits) > 0
    /\ pending = << >>

----------------------------------------------------------------------------
(* Persistence, reload and frame properties of the session *)

\* every (bundle, site, count) entry of table is an entry of original
SubTable(table, original) ==
    \A unitId \in DOMAIN table :
       /\ unitId \in DOMAIN original
       /\ \A siteId \in DOMAIN table[unitId] :
             /\ siteId \in DOMAIN original[unitId]
             /\ table[unitId][siteId] = original[unitId][siteId]

\* initFromUrl restores the saved record: no URL item takes over and there
\* is a record (the handler says so in lastOp)
RestoreStep ==
    /\ lastOp'.name = "initFromUrl"
    /\ lastOp'.restored

\* the answer to a tree request is applied right after a page load that
\* restored the record
RestoredResponseStep ==
    /\ lastOp.name = "initFromUrl"
    /\ lastOp.restored
    /\ lastOp'.name = "renderBundles"

\* C21: a page load that restores the saved record leaves the record as it is
\* and sets the selection, the split points and the table to the record's,
\* whatever a handler that ran before it left in memory; with a selection it
\* asks for the tree of exactly that selection and those split points, and
\* once an answer is applied every (bundle, site, count) entry of the table
\* is an entry of the record that was restored.
C21_ReloadRoundTrip ==
    [][ /\ RestoreStep =>
             /\ storage.saved
             /\ storage' = storage
             /\ selectedItems' = storage.selectedItems
             /\ splitPoints' = storage.splitPoints
             /\ siteAssignments' = storage.siteAssignments
             /\ IF storage.selectedItems = << >> THEN pending' = pending
                ELSE /\ Len(pending') = Len(pending) + 1
                     /\ pending'[Len(pending')].items = storage.selectedItems
                     /\ pending'[Len(pending')].split_points = storage.splitPoints
        /\ RestoredResponseStep => SubTable(siteAssignments', storage.siteAssignments)
      ]_vars

\* the answer after a restoring page load pruned one bundle of the restored
\* table and kept another
C21_Witness ==
    /\ AfterResponse
    /\ lastOp.restored
    /\ lastOp.pruned
    /\ siteAssignments # EmptyMap
    /\ selectedItems # << >>

\* the last operation changed the selection, the split points or the table,
\* or was the clean-up of an answer (an answer without a bundle returns
\* before the clean-up)
Mutated ==
    \/ lastOp.name \in {"assignUnit", "unassignUnit", "resetAllocation", "autoAllocateUnits",
                        "removeItem", "adjustItemLines", "setItemLines"}
    \/ lastOp.name = "renderBundles" /\ allocatableUnits # << >>
    \/ lastOp.name = "toggleSplitPoint" /\ lastOp.toggled
    \/ lastOp.name = "addItem" /\ lastOp.added
    \/ lastOp.name = "quickSelect" /\ lastOp.found

\* the record holds the selection, the split points and the table of the page
RecordIsMemory ==
    /\ storage.selectedItems = selectedItems
    /\ storage.splitPoints = splitPoints
    /\ storage.siteAssignments = siteAssignments

\* C24: after every operation that changes the selection, the split points or
\* the table, and after the clean-up of a tree answer, the saved record holds
\* the selection, the split points and the table of the page; an answer
\* without a bundle, which has no clean-up, leaves a record equal to them if
\* there is a record.
C24_RecordMatchesMemory ==
    /\ Mutated => storage.saved /\ RecordIsMemory
    /\ lastOp.name = "renderBundles" /\ storage.saved => RecordIsMemory

\* the step is one of the four allocation operations (each names itself in
\* lastOp)
AllocationStep ==
    lastOp'.name \in {"assignUnit", "unassignUnit", "resetAllocation", "autoAllocateUnits"}

\* C27: assignUnit, unassignUnit, resetAllocation and autoAllocateUnits leave
\* the site registry, the bundle list, the selection and the split points as
\* they are; the saved record takes the new table, holds that selection (as
\* JSON writes it) and those split points, and keeps the selection and the
\* split points of the record before when there was one.
C27_AllocationFrame ==
    [][ AllocationStep =>
          /\ UNCHANGED <<SITES, allocatableUnits, selectedItems, splitPoints>>
          /\ storage'.siteAssignments = siteAssignments'
          /\ storage'.selectedItems = JsonItems(selectedItems)
          /\ storage'.splitPoints = splitPoints
          /\ storage.saved =>
                /\ storage'.selectedItems = storage.selectedItems
                /\ storage'.splitPoints = storage.splitPoints
      ]_vars

\* an automatic allocation filled the table of a page with a selection, a
\* split point and two bundles, and the record before held them too
C27_Witness ==
    /\ AfterAuto
    /\ siteAssignments # EmptyMap
    /\ storage.siteAssignments = siteAssignments
    /\ storage.selectedItems = JsonItems(selectedItems)
    /\ selectedItems # << >>
    /\ splitPoints # {}
    /\ storage.splitPoints = splitPoints
    /\ Len(allocatableUnits) = 2

\* C28: from the empty table of a fresh page on, whatever assignUnit,
\* unassignUnit, resetAllocation, autoAllocateUnits, toggleSplitPoint and the
\* clean-up of tree answers do, no bundle of the table has an empty
\* sub-mapping and every count is an integer of at least 1.
C28_TableWellFormed ==
    \A unitId \in DOMAIN siteAssignments :
       /\ DOMAIN siteAssignments[unitId] # {}
       /\ \A siteId \in DOMAIN siteAssignments[unitId] :
             /\ siteAssignments[unitId][siteId] \in Nat
             /\ siteAssignments[unitId][siteId] >= 1

\* unassignUnit took the only site of a bundle away while another bundle keeps
\* two lines on a site
C28_Witness ==
    /\ lastOp.name = "unassignUnit"
    /\ lastOp.removed > 0
    /\ \E i \in UnitIndexes : allocatableUnits[i].id \notin DOMAIN siteAssignments
    /\ \E unitId \in DOMAIN siteAssignments :
          \E siteId \in DOMAIN siteAssignments[unitId] :
             siteAssignments[unitId][siteId] >= 2

\* a step that changes the selection, or flips a split point
SelectionChangeStep ==
    \/ \E itemId \in AddableIds : ~IsSelected(selectedItems, itemId) /\ addItem(itemId)
    \/ \E index \in 1..Len(selectedItems) : removeItem(index)
    \/ \E index \in 1..Len(selectedItems), delta \in {-1, 1} : adjustItemLines(index, delta)
    \/ \E index \in 1..Len(selectedItems), value \in LineInputs : setItemLines(index, value)
    \/ \E itemId \in ItemIds : CanToggle(selectedItems, itemId) /\ toggleSplitPoint(itemId)

\* C25: every selection change and every successful toggle sends a tree
\* request that carries the selection and the split points as they are after
\* the change, and an applied answer leaves the page with exactly the
\* answer's bundle list.
C25_ChangeReplacesBundles ==
    [][ /\ SelectionChangeStep =>
             /\ Len(pending') = Len(pending) + 1
             /\ pending'[Len(pending')].items = selectedItems'
             /\ pending'[Len(pending')].split_points = splitPoints'
        /\ \A i \in 1..Len(pending), data \in TreeResponses :
              treeLoaded(i, data) => allocatableUnits' = data.allocatable_units
      ]_vars

----------------------------------------------------------------------------
(* New plans and the selection list *)

\* the step leaves a new plan of this item alone: nothing else selected, no
\* split point, an empty table, all three saved, and a request for that
\* plan as the latest one in flight
StartsPlan(itemId) ==
    /\ Len(selectedItems') = 1
    /\ selectedItems'[1].id = itemId
    /\ splitPoints' = {}
    /\ siteAssignments' = EmptyMap
    /\ storage'.saved
    /\ storage'.selectedItems = selectedItems'
    /\ storage'.splitPoints = {}
    /\ storage'.siteAssignments = EmptyMap
    /\ Len(pending') >= 1
    /\ pending'[Len(pending')].items = selectedItems'
    /\ pending'[Len(pending')].split_points = {}
    /\ ~pending'[Len(pending')].stale

\* (the handlers name themselves and their item in lastOp)
\* C32: a click on the quick button of a catalogue item, and a page load
\* whose URL names a catalogue item that is not raw, leave that item as the
\* only selected one, no split point and an empty table, whatever was in
\* memory and in the saved record; the new state is saved and a tree
\* request for it is sent.
C32_NewPlanReplacesState ==
    [][ /\ lastOp'.name = "quickSelect" /\ lastOp'.found
              => StartsPlan(lastOp'.itemId) /\ Len(pending') = Len(pending) + 1
        /\ lastOp'.name = "initFromUrl" /\ lastOp'.started
              => StartsPlan(lastOp'.itemId) /\ Len(pending') = Len(pending) + 1
      ]_vars

\* no two entries of the selection name the same item
UniqueSelection ==
    \A j, k \in 1..Len(selectedItems) :
       selectedItems[j].id = selectedItems[k].id => j = k

\* addItem is called for an item the selection already has
RepeatedAddStep ==
    \E itemId \in AddableIds :
       /\ \E k \in 1..Len(selectedItems) : selectedItems[k].id = itemId
       /\ addItem(itemId)

\* C33: no two selected items have the same id, in every state the page
\* reaches from an empty selection; addItem of an item already selected
\* changes neither the selection, the split points, the table, the bundle
\* list nor the saved record, and sends no tree request.
C33_SelectionHasNoDuplicate ==
    /\ []UniqueSelection
    /\ [][ RepeatedAddStep =>
             UNCHANGED <<selectedItems, splitPoints, siteAssignments, allocatableUnits,
                         storage, pending>> ]_vars

\* addItem was refused for the one selected item: the alert is up, and the
\* request of its first addItem is still the only one in flight
C33_Witness ==
    /\ lastOp.name = "addItem"
    /\ ~lastOp.added
    /\ lastAlert = AlreadyAddedAlert
    /\ Len(selectedItems) = 1
    /\ Len(pending) = 1
    /\ storage.selectedItems = selectedItems

\* C34: every selected item has a line count that is an integer of at least
\* 1, whether addItem, adjustItemLines, setItemLines or the lines parameter
\* of the URL set it.
C34_LinesAtLeastOne ==
    \A k \in 1..Len(selectedItems) :
       /\ selectedItems[k].lines.kind = "finite"
       /\ ~selectedItems[k].lines.negative
       /\ selectedItems[k].lines.digits # << >>

====
